---- MODULE Spec2Model ----
(***************************************************************************)
(* riff: the streaming block accumulator (LineCollector), its ordered      *)
(* output queue, the worker pool that refines old/new blocks, and the      *)
(* refiner's formatting.                                                   *)
(*                                                                         *)
(* Text is a sequence of units.  A unit is one character ("a", "\n", ...)  *)
(* or one terminal escape sequence ("ESC[31m"); the input never holds an   *)
(* escape sequence (consume_line strips them first), so an escape unit in  *)
(* a text always comes from one of the constants below.                    *)
(***************************************************************************)
EXTENDS Integers, Sequences, FiniteSets, TLC

\* ------------------------------------------------------------------ bounds

\* How many lines the caller feeds before it drops the collector.
MaxLines == 3

\* num_cpus::get(): the size of the worker pool.
NumCpus == 2

\* The queue holds num_cpus * QueueFactor entries (the program uses 100).
QueueFactor == 1

\* Capacity of the BufWriter around the sink, in units (std's default is 8 KiB).
BufCap == 8

\* Longest text given to the refiner on its own (specification SpecRefine).
MaxText == 3

\* How many tokens are pushed to one TokenCollector
MaxTokens == 4

\* ------------------------------------------------------------- constants.rs

OLD == "ESC[31m"
\* NEW is a reserved word of TLA+
NEW_ == "ESC[32m"
ERROR == "ESC[31m"
INVERSE_VIDEO == "ESC[7m"
NOT_INVERSE_VIDEO == "ESC[27m"
NO_EOF_NEWLINE_COLOR == "ESC[2m"
BOLD == "ESC[1m"
FAINT == "ESC[2m"
YELLOW == "ESC[33m"
NORMAL == "ESC[0m"
HUNK_HEADER == "ESC[36m"
NEWLINE_GLYPH == "RETURN-GLYPH"

NO_EOF_NEWLINE_MARKER ==
    << "\\", " ", "N", "o", " ", "n", "e", "w", "l", "i", "n", "e", " ",
       "a", "t", " ", "e", "n", "d", " ", "o", "f", " ", "f", "i", "l", "e" >>

Escapes == { OLD, NEW_, INVERSE_VIDEO, NOT_INVERSE_VIDEO, BOLD, FAINT, YELLOW,
             NORMAL, HUNK_HEADER }

\* ------------------------------------------------------------ text helpers

Last(s) == s[Len(s)]

Front(s) == SubSeq(s, 1, Len(s) - 1)

\* str::starts_with
StartsWith(s, p) == Len(s) >= Len(p) /\ SubSeq(s, 1, Len(p)) = p

\* str::strip_prefix, for a prefix the text is known to start with
StripPrefix(s, p) == SubSeq(s, Len(p) + 1, Len(s))

\* str::ends_with('\n')
EndsWithNewline(s) == s # << >> /\ Last(s) = "\n"

RECURSIVE Concat(_)
Concat(ss) == IF ss = << >> THEN << >> ELSE Head(ss) \o Concat(Tail(ss))

\* str::find(" @@ "): the first index (from 1) where p starts in s, 0 if none
Find(s, p) ==
    LET hits == { i \in 1..(Len(s) - Len(p) + 1) : SubSeq(s, i, i + Len(p) - 1) = p }
    IN  IF hits = {} THEN 0 ELSE CHOOSE i \in hits : \A j \in hits : i <= j

\* Is p a contiguous part of s?
Contains(s, p) == \E i \in 1..(Len(s) - Len(p) + 1) : SubSeq(s, i, i + Len(p) - 1) = p

\* Positions of unit c in s
Positions(s, c) == { i \in 1..Len(s) : s[i] = c }

\* The empty Option / the empty text, written once
NoText == << >>

NL == << "\n" >>

\* ------------------------------------------------------------- refiner.rs

\* str::lines(): the pieces between newlines, a final piece only when text
\* follows the last newline; a "\r" right before a newline goes with it.
StripCR(l) == IF l # << >> /\ Last(l) = "\r" THEN Front(l) ELSE l

RECURSIVE SplitLines(_, _)
SplitLines(t, cur) ==
    IF t = << >> THEN (IF cur = << >> THEN << >> ELSE << cur >>)
    ELSE IF Head(t) = "\n" THEN << StripCR(cur) >> \o SplitLines(Tail(t), << >>)
    ELSE SplitLines(Tail(t), Append(cur, Head(t)))

Lines(t) == SplitLines(t, << >>)

\* The dim line emitted for a side that does not end in a newline
NoEofNewlineLine == << NO_EOF_NEWLINE_COLOR >> \o NO_EOF_NEWLINE_MARKER \o << NORMAL >>

\* The dim line of one side, if that side needs one
MarkerLines(text) ==
    IF text # << >> /\ ~EndsWithNewline(text) THEN << NoEofNewlineLine >> ELSE << >>

\* One formatted line per line of the text: color, prefix, line, NORMAL
ColorLines(color, prefix, text) ==
    [ i \in 1..Len(Lines(text)) |-> << color, prefix >> \o Lines(text)[i] \o << NORMAL >> ]

\* Refiner::simple_format
simple_format(old, new) ==
    ColorLines(OLD, "-", old) \o MarkerLines(old) \o
    ColorLines(NEW_, "+", new) \o MarkerLines(new)

Letters == { "a", "b", "c", "d", "e", "f", "g", "h", "i", "j", "k", "l", "m",
             "n", "o", "p", "q", "r", "s", "t", "u", "v", "w", "x", "y", "z",
             "N" }

Digits == { "0", "1", "2", "3", "4", "5", "6", "7", "8", "9" }

\* char::is_alphanumeric
IsAlphanumeric(c) == c \in Letters \cup Digits

\* tokenizer::tokenize: runs of alphanumeric characters, every other character
\* on its own.  cur is the word being built.
RECURSIVE TokenizeFrom(_, _)
TokenizeFrom(t, cur) ==
    IF t = << >> THEN (IF cur = << >> THEN << >> ELSE << cur >>)
    ELSE IF IsAlphanumeric(Head(t)) THEN TokenizeFrom(Tail(t), Append(cur, Head(t)))
    ELSE (IF cur = << >> THEN << >> ELSE << cur >>) \o << << Head(t) >> >>
         \o TokenizeFrom(Tail(t), << >>)

\* A tokenizer that makes every character a token of its own
tokenize_chars(t) == [ i \in 1..Len(t) |-> << t[i] >> ]

tokenize(t) == TokenizeFrom(t, << >>)

\* Length of a longest common subsequence of the first i tokens of x and the
\* first j tokens of y (the table the diff library fills).
RECURSIVE LcsLen(_, _, _, _)
LcsLen(x, y, i, j) ==
    IF i = 0 \/ j = 0 THEN 0
    ELSE IF x[i] = y[j] THEN LcsLen(x, y, i - 1, j - 1) + 1
    ELSE LET a == LcsLen(x, y, i - 1, j)
             b == LcsLen(x, y, i, j - 1)
         IN  IF a >= b THEN a ELSE b

\* The edit script, found by walking the table back from the end; each step
\* is put in front of the steps found so far.
RECURSIVE EditsBack(_, _, _, _, _)
EditsBack(x, y, i, j, acc) ==
    IF i = 0 /\ j = 0 THEN acc
    ELSE IF i > 0 /\ j > 0 /\ x[i] = y[j]
         THEN EditsBack(x, y, i - 1, j - 1, << [op |-> "Copy", elem |-> x[i]] >> \o acc)
    ELSE IF j > 0 /\ (i = 0 \/ LcsLen(x, y, i, j - 1) >= LcsLen(x, y, i - 1, j))
         THEN EditsBack(x, y, i, j - 1, << [op |-> "Insert", elem |-> y[j]] >> \o acc)
    ELSE EditsBack(x, y, i - 1, j, << [op |-> "Remove", elem |-> x[i]] >> \o acc)

\* tokenized_old.diff(&tokenized_new), as a list of Copy / Insert / Remove
Diff(x, y) == EditsBack(x, y, Len(x), Len(y), << >>)

\* The state of the loop over the edit script; old_copies and new_copies keep
\* the unchanged tokens pushed to either text, in order
HighlightInit ==
    [ highlighted_old_text |-> << >>, highlighted_new_text |-> << >>,
      old_is_inverse |-> FALSE, new_is_inverse |-> FALSE,
      old_highlight_count |-> 0, new_highlight_count |-> 0,
      old_copies |-> << >>, new_copies |-> << >> ]

\* A loop body that pushes an unchanged token to the new text only
HighlightEditNewOnly(h, edit) ==
    IF edit.op = "Copy"
    THEN [ h EXCEPT !.highlighted_new_text = @ \o edit.elem,
                    !.new_copies = Append(@, edit.elem) ]
    ELSE h

\* A loop body that leaves the inverse flag up after a changed newline
HighlightEditStaysInverse(h, edit) ==
    CASE edit.op = "Copy" ->
           [ h EXCEPT
               !.highlighted_new_text =
                   @ \o (IF h.new_is_inverse THEN << NOT_INVERSE_VIDEO >> ELSE << >>)
                     \o edit.elem,
               !.new_is_inverse = FALSE,
               !.highlighted_old_text =
                   @ \o (IF h.old_is_inverse THEN << NOT_INVERSE_VIDEO >> ELSE << >>)
                     \o edit.elem,
               !.old_is_inverse = FALSE,
               !.new_copies = Append(@, edit.elem),
               !.old_copies = Append(@, edit.elem) ]
      [] edit.op = "Insert" ->
           [ h EXCEPT
               !.new_highlight_count = @ + 1,
               !.highlighted_new_text =
                   @ \o (IF ~h.new_is_inverse THEN << INVERSE_VIDEO >> ELSE << >>)
                     \o (IF edit.elem = NL THEN << NEWLINE_GLYPH >> ELSE << >>)
                     \o edit.elem,
               !.new_is_inverse = TRUE ]
      [] edit.op = "Remove" ->
           [ h EXCEPT
               !.old_highlight_count = @ + 1,
               !.highlighted_old_text =
                   @ \o (IF ~h.old_is_inverse THEN << INVERSE_VIDEO >> ELSE << >>)
                     \o (IF edit.elem = NL THEN << NEWLINE_GLYPH >> ELSE << >>)
                     \o edit.elem,
               !.old_is_inverse = TRUE ]

\* One edit of the script applied to the loop state
HighlightEdit(h, edit) ==
    CASE edit.op = "Copy" ->
           [ h EXCEPT
               !.highlighted_new_text =
                   @ \o (IF h.new_is_inverse THEN << NOT_INVERSE_VIDEO >> ELSE << >>)
                     \o edit.elem,
               !.new_is_inverse = FALSE,
               !.highlighted_old_text =
                   @ \o (IF h.old_is_inverse THEN << NOT_INVERSE_VIDEO >> ELSE << >>)
                     \o edit.elem,
               !.old_is_inverse = FALSE,
               !.new_copies = Append(@, edit.elem),
               !.old_copies = Append(@, edit.elem) ]
      [] edit.op = "Insert" ->
           [ h EXCEPT
               !.new_highlight_count = @ + 1,
               !.highlighted_new_text =
                   @ \o (IF ~h.new_is_inverse THEN << INVERSE_VIDEO >> ELSE << >>)
                     \o (IF edit.elem = NL THEN << NEWLINE_GLYPH >> ELSE << >>)
                     \o edit.elem,
               !.new_is_inverse = (edit.elem # NL) ]
      [] edit.op = "Remove" ->
           [ h EXCEPT
               !.old_highlight_count = @ + 1,
               !.highlighted_old_text =
                   @ \o (IF ~h.old_is_inverse THEN << INVERSE_VIDEO >> ELSE << >>)
                     \o (IF edit.elem = NL THEN << NEWLINE_GLYPH >> ELSE << >>)
                     \o edit.elem,
               !.old_is_inverse = (edit.elem # NL) ]

RECURSIVE HighlightAll(_, _)
HighlightAll(h, edits) ==
    IF edits = << >> THEN h
    ELSE HighlightAll(HighlightEdit(h, Head(edits)), Tail(edits))

\* The loop state after the whole diff.  Equal token lists come back from
\* the library as one Copy of everything, which toggles nothing.
Highlighted(old, new) ==
    IF tokenize(old) = tokenize(new)
    THEN [ HighlightInit EXCEPT !.highlighted_old_text = Concat(tokenize(old)),
                                !.highlighted_new_text = Concat(tokenize(new)),
                                !.old_copies = tokenize(old),
                                !.new_copies = tokenize(new) ]
    ELSE HighlightAll(HighlightInit, Diff(tokenize(old), tokenize(new)))

MAX_HIGHLIGHT_PERCENTAGE == 30

OK_HIGHLIGHT_COUNT == 5

\* Too much of the block is highlighted: fall back to simple_format
TooManyHighlights(old, new) ==
    LET h == Highlighted(old, new)
        highlight_count == h.old_highlight_count + h.new_highlight_count
        token_count == Len(tokenize(old)) + Len(tokenize(new))
    IN  /\ highlight_count > OK_HIGHLIGHT_COUNT
        /\ (100 * highlight_count) \div token_count > MAX_HIGHLIGHT_PERCENTAGE

\* A refiner without the two early returns: an empty side is diffed like
\* any other
refine_always_diffs(old, new) ==
    IF TooManyHighlights(old, new) THEN simple_format(old, new)
    ELSE LET h == Highlighted(old, new)
         IN  ColorLines(OLD, "-", h.highlighted_old_text) \o MarkerLines(old) \o
             ColorLines(NEW_, "+", h.highlighted_new_text) \o MarkerLines(new)

\* Refiner::refine
refine(old, new) ==
    IF new = << >> THEN simple_format(old, new)
    ELSE IF old = << >> THEN simple_format(old, new)
    ELSE IF TooManyHighlights(old, new) THEN simple_format(old, new)
    ELSE LET h == Highlighted(old, new)
         IN  ColorLines(OLD, "-", h.highlighted_old_text) \o MarkerLines(old) \o
             ColorLines(NEW_, "+", h.highlighted_new_text) \o MarkerLines(new)

\* The worker's closure: every line of the refiner's answer, with a newline
FormatJob(old, new) ==
    Concat([ i \in 1..Len(refine(old, new)) |-> refine(old, new)[i] \o NL ])

\* ------------------------------------------------------- line_collector.rs

P_diff == << "d", "i", "f", "f" >>
P_diff_sp == << "d", "i", "f", "f", " " >>
P_index_sp == << "i", "n", "d", "e", "x", " " >>
P_binary_files_sp == << "B", "i", "n", "a", "r", "y", " ", "f", "i", "l", "e", "s", " " >>
P_copy_from_sp == << "c", "o", "p", "y", " ", "f", "r", "o", "m", " " >>
P_copy_to_sp == << "c", "o", "p", "y", " ", "t", "o", " " >>
P_rename_from_sp == << "r", "e", "n", "a", "m", "e", " ", "f", "r", "o", "m", " " >>
P_rename_to_sp == << "r", "e", "n", "a", "m", "e", " ", "t", "o", " " >>
P_similarity_index_sp ==
    << "s", "i", "m", "i", "l", "a", "r", "i", "t", "y", " ", "i", "n", "d", "e", "x", " " >>
P_new_file_mode_sp ==
    << "n", "e", "w", " ", "f", "i", "l", "e", " ", "m", "o", "d", "e", " " >>
P_deleted_file_mode_sp ==
    << "d", "e", "l", "e", "t", "e", "d", " ", "f", "i", "l", "e", " ", "m", "o", "d", "e", " " >>
P_commit == << "c", "o", "m", "m", "i", "t" >>
P_minus3_sp == << "-", "-", "-", " " >>
P_plus3_sp == << "+", "+", "+", " " >>
P_atat_sp == << "@", "@", " " >>
P_sp_atat_sp == << " ", "@", "@", " " >>
DEV_NULL == << "/", "d", "e", "v", "/", "n", "u", "l", "l" >>

STATIC_HEADER_PREFIXES ==
    << << P_diff_sp, FAINT >>, << P_index_sp, FAINT >>, << P_binary_files_sp, BOLD >>,
       << P_copy_from_sp, FAINT >>, << P_copy_to_sp, BOLD >>,
       << P_rename_from_sp, FAINT >>, << P_rename_to_sp, BOLD >>,
       << P_similarity_index_sp, FAINT >>, << P_new_file_mode_sp, FAINT >>,
       << P_deleted_file_mode_sp, FAINT >> >>

\* None, as the answer of get_fixed_highlight
NoHighlight == ""

\* get_fixed_highlight: the style of the first prefix the line starts with
get_fixed_highlight(line) ==
    LET hits == { i \in 1..Len(STATIC_HEADER_PREFIXES) :
                    StartsWith(line, STATIC_HEADER_PREFIXES[i][1]) }
    IN  IF hits = {} THEN NoHighlight
        ELSE STATIC_HEADER_PREFIXES[CHOOSE i \in hits : \A j \in hits : i <= j][2]

\* The collector's own fields, and what one call has handed to the queue
\* (sends) or tripped over (abort).
Collector(old, new, plain, seen) ==
    [ old_text |-> old, new_text |-> new, plain_text |-> plain, diff_seen |-> seen,
      sends |-> << >>, abort |-> "none" ]

\* StringFuture::from_oldnew: the texts go to a worker, the result is pending.
\* The closure owns the two texts and reads nothing else, so what it will
\* send (answer) is settled when it is made; the worker decides only when.
from_oldnew(old, new) ==
    [ kind |-> "oldnew", old |-> old, new |-> new, text |-> << >>,
      answer |-> FormatJob(old, new) ]

\* StringFuture::from_string: an already finished future
from_string(text) ==
    [ kind |-> "string", old |-> << >>, new |-> << >>, text |-> text, answer |-> << >> ]

\* A drain that forgets to clear new_text
drain_oldnew_keeps_new(st) ==
    IF st.old_text = << >> /\ st.new_text = << >> THEN st
    ELSE [ st EXCEPT !.sends = Append(@, from_oldnew(st.old_text, st.new_text)),
                     !.old_text = << >> ]

\* LineCollector::drain_oldnew
drain_oldnew(st) ==
    IF st.old_text = << >> /\ st.new_text = << >> THEN st
    ELSE [ st EXCEPT !.sends = Append(@, from_oldnew(st.old_text, st.new_text)),
                     !.old_text = << >>,
                     !.new_text = << >> ]

\* A drain that sends plain_text even when it is empty
drain_plain_always(st) ==
    [ st EXCEPT !.sends = Append(@, from_string(st.plain_text)),
                !.plain_text = << >> ]

\* LineCollector::drain_plain
drain_plain(st) ==
    IF st.plain_text = << >> THEN st
    ELSE [ st EXCEPT !.sends = Append(@, from_string(st.plain_text)),
                     !.plain_text = << >> ]

\* LineCollector::consume_plain_linepart
consume_plain_linepart(st, linepart) ==
    [ drain_oldnew(st) EXCEPT !.plain_text = @ \o linepart ]

\* LineCollector::consume_plain_line
consume_plain_line(st, line) ==
    [ drain_oldnew(st) EXCEPT !.plain_text = @ \o line \o NL ]

\* LineCollector::consume_old_line
consume_old_line(st, line) ==
    [ drain_plain(st) EXCEPT !.old_text = @ \o Tail(line) \o NL ]

\* LineCollector::consume_new_line
consume_new_line(st, line) ==
    [ drain_plain(st) EXCEPT !.new_text = @ \o Tail(line) \o NL ]

\* LineCollector::consume_no_eof_newline_marker.  pop() takes the last
\* character whatever it is; the assertion then aborts if it was no newline.
consume_no_eof_newline_marker(st, no_eof_newline_marker) ==
    IF st.new_text # << >>
    THEN [ st EXCEPT !.new_text = Front(@),
                     !.abort = IF Last(st.new_text) = "\n" THEN @ ELSE "assert_newline" ]
    ELSE IF st.old_text # << >>
    THEN [ st EXCEPT !.old_text = Front(@),
                     !.abort = IF Last(st.old_text) = "\n" THEN @ ELSE "assert_newline" ]
    ELSE consume_plain_line(st, << NO_EOF_NEWLINE_COLOR >> \o no_eof_newline_marker
                                    \o << NORMAL >>)

\* to_highlighted_tokens, lowlight_timestamp, unhighlight_git_prefix and
\* render of a file name: one header line holding the name
render_filename(prefix, name) == << BOLD >> \o prefix \o name \o << NORMAL >>

\* LineCollector::consume_plusminus_header, once the +++ name is stored
plusminus_pair(st) ==
    LET cleared == [ st EXCEPT !.old_text = << >>, !.new_text = << >> ]
    IN  IF st.old_text = DEV_NULL
        THEN consume_plain_line(
               consume_plain_linepart(
                 consume_plain_linepart(
                   consume_plain_linepart(
                     consume_plain_line(
                       consume_plain_linepart(
                         consume_plain_linepart(cleared, << FAINT >>),
                         P_minus3_sp \o DEV_NULL),
                       << NORMAL >>),
                     << BOLD >>),
                   P_plus3_sp),
                 st.new_text),
               << NORMAL >>)
        ELSE IF st.new_text = DEV_NULL
        THEN consume_plain_line(
               consume_plain_linepart(
                 consume_plain_linepart(
                   consume_plain_line(
                     consume_plain_linepart(
                       consume_plain_linepart(
                         consume_plain_linepart(cleared, << BOLD >>),
                         P_minus3_sp),
                       st.old_text),
                     << NORMAL >>),
                   << FAINT >>),
                 P_plus3_sp \o DEV_NULL),
               << NORMAL >>)
        ELSE consume_plain_line(
               consume_plain_line(cleared, render_filename(P_minus3_sp, st.old_text)),
               render_filename(P_plus3_sp, st.new_text))

\* A header handler that leaves the two names in the buffers when it writes
\* the header lines
consume_plusminus_header_keeps_names(st, line) ==
    IF StartsWith(line, P_minus3_sp)
    THEN [ st EXCEPT !.old_text = StripPrefix(line, P_minus3_sp) ]
    ELSE IF st.old_text = << >>
    THEN st
    ELSE consume_plain_line(
           consume_plain_line(
             [ st EXCEPT !.new_text = StripPrefix(line, P_plus3_sp) ],
             render_filename(P_minus3_sp, st.old_text)),
           render_filename(P_plus3_sp, StripPrefix(line, P_plus3_sp)))

\* LineCollector::consume_plusminus_header
consume_plusminus_header(st, line) ==
    IF StartsWith(line, P_minus3_sp)
    THEN [ st EXCEPT !.old_text = StripPrefix(line, P_minus3_sp) ]
    ELSE IF StartsWith(line, P_plus3_sp)
    THEN IF st.old_text = << >>
         THEN st
         ELSE plusminus_pair([ st EXCEPT !.new_text = StripPrefix(line, P_plus3_sp) ])
    ELSE [ st EXCEPT !.abort = "plusminus_panic" ]

\* A hunk header handler that never looks for the second marker
consume_hunk_header_whole(st, line) ==
    consume_plain_line(
      consume_plain_linepart(consume_plain_linepart(st, << HUNK_HEADER >>), line),
      << NORMAL >>)

\* LineCollector::consume_hunk_header
consume_hunk_header(st, line) ==
    LET second_atat_index == Find(line, P_sp_atat_sp)
        start == consume_plain_linepart(st, << HUNK_HEADER >>)
    IN  IF second_atat_index # 0
        THEN consume_plain_line(
               consume_plain_linepart(
                 consume_plain_linepart(
                   consume_plain_linepart(
                     consume_plain_linepart(start, << FAINT >>),
                     SubSeq(line, 1, second_atat_index + 3)),
                   << BOLD >>),
                 SubSeq(line, second_atat_index + 4, Len(line))),
               << NORMAL >>)
        ELSE consume_plain_line(consume_plain_linepart(start, line), << NORMAL >>)

\* format_commit_line, another module's work: one styled line
format_commit_line(line, diff_seen) == << YELLOW >> \o line \o << NORMAL >>

\* Does consume_line take the line for a no-newline marker?
IsMarkerLine(line) ==
    /\ get_fixed_highlight(line) = NoHighlight
    /\ ~StartsWith(line, P_commit)
    /\ ~StartsWith(line, P_minus3_sp) /\ ~StartsWith(line, P_plus3_sp)
    /\ ~StartsWith(line, P_atat_sp)
    /\ StartsWith(line, << "\\" >>)

\* LineCollector::consume_line, on the collector's own fields
consume_line(st0, line) ==
    LET st == [ st0 EXCEPT !.diff_seen = @ \/ StartsWith(line, P_diff) ]
    IN  IF get_fixed_highlight(line) # NoHighlight
        THEN consume_plain_line(
               consume_plain_linepart(
                 consume_plain_linepart(st, << get_fixed_highlight(line) >>),
                 line),
               << NORMAL >>)
        ELSE IF StartsWith(line, P_commit)
        THEN consume_plain_line(st, format_commit_line(line, st.diff_seen))
        ELSE IF StartsWith(line, P_minus3_sp) \/ StartsWith(line, P_plus3_sp)
        THEN consume_plusminus_header(st, line)
        ELSE IF StartsWith(line, P_atat_sp)
        THEN consume_hunk_header(st, line)
        ELSE IF line = << >>
        THEN consume_plain_line(st, << >>)
        ELSE IF StartsWith(line, << "-" >>)
        THEN consume_old_line(st, line)
        ELSE IF StartsWith(line, << "+" >>)
        THEN consume_new_line(st, line)
        ELSE IF StartsWith(line, << "\\" >>)
        THEN consume_no_eof_newline_marker(st, line)
        ELSE consume_plain_line(st, line)

\* ------------------------------------------------------------------- state

VARIABLES
    old_text,      \* LineCollector.old_text
    new_text,      \* LineCollector.new_text
    plain_text,    \* LineCollector.plain_text
    diff_seen,     \* LineCollector.diff_seen
    holder,        \* NO_EOF_NEWLINE_MARKER_HOLDER: [set, text]
    prod,          \* where the thread that owns the collector is
    abort,         \* the panic that stopped that thread, "none" if none
    nlines,        \* lines consumed so far
    input,         \* the lines consumed so far, in order
    sending,       \* futures made by the current call and not yet in the queue
    created,       \* every StringFuture made so far; a future's id is its index
    pushed,        \* ids in the order they were put in the queue
    queue,         \* the sync_channel between the collector and the printer
    pool,          \* the thread pool's waiting jobs, oldest first
    running,       \* the jobs the pool's threads are working on
    chan,          \* per future, its one-slot result channel: [full, val]
    out_pc,        \* where the Output Printer Thread is
    print_me,      \* the future the printer holds: [id, result, pending]
    printed,       \* ids whose text the printer has handed to its BufWriter
    out,           \* all text the BufWriter has accepted
    sunk,          \* how much of out has reached the sink itself
    sink,          \* the sink: "open", or the error it answers with
    ref_old,       \* SpecRefine: the old text given to the refiner
    ref_new,       \* SpecRefine: the new text given to the refiner
    ref_lines,     \* SpecRefine: the refiner's answer
    ref_done,      \* SpecRefine: has refine returned?
    tc_pc,         \* SpecRender: "idle", "live", or "panicked"
    tc_abort,      \* SpecRender: the assertion that failed, "none" if none
    line_prefix,   \* TokenCollector.line_prefix
    tokens,        \* TokenCollector.tokens
    bytes_count,   \* TokenCollector.bytes_count
    highlighted_bytes_count,   \* TokenCollector.highlighted_bytes_count
    rendered,      \* TokenCollector.rendered
    tc_text,       \* SpecRender: what render returned
    tc_taken,      \* SpecRender: the tokens render took out of the collector
    tc_rows,       \* SpecRender: every row of the render, after each rule
    tc_read,       \* SpecRender: the last count a caller read
    hd_pc,         \* highlight_diff: where the loop is
    hd_abort,      \* highlight_diff: the panic that ended it, "none" if none
    hd_lines,      \* highlight_diff: the lines read from input so far
    hd_old_text,   \* highlight_diff: old_text
    hd_new_text,   \* highlight_diff: new_text
    last_line_kind,   \* highlight_diff: last_line_kind
    hd_output      \* highlight_diff: what was printed to output

collectorVars == << old_text, new_text, plain_text, diff_seen, holder >>

producerVars == << prod, abort, nlines, input, sending, created, pushed >>

workerVars == << pool, running, chan >>

printerVars == << out_pc, print_me, printed, out, sunk, sink >>

refVars == << ref_old, ref_new, ref_lines, ref_done >>

tcVars == << tc_pc, tc_abort, line_prefix, tokens, bytes_count, highlighted_bytes_count,
            rendered, tc_text, tc_taken, tc_rows, tc_read >>

loopVars == << hd_pc, hd_abort, hd_lines, hd_old_text, hd_new_text, last_line_kind,
              hd_output >>

vars == << collectorVars, producerVars, queue, workerVars, printerVars, refVars, tcVars,
          loopVars >>

\* let queue_size = num_cpus::get() * 100
queue_size == NumCpus * QueueFactor

\* The line payloads: line k of the input carries D[k], so that a piece of
\* output can be traced to the line it came from.
D == << "1", "2", "3", "4", "5", "6" >>

\* The hunk header the caller may feed as line k: one that names a function
\* after a second marker on the odd lines, one without a second marker on the
\* even lines
HunkLine(k) ==
    IF k % 2 = 1 THEN P_atat_sp \o << D[k] >> \o P_sp_atat_sp \o << "f" >>
    ELSE P_atat_sp \o << D[k] >>

\* The lines the caller may feed as line k
InputLines(k) ==
    { << " ", D[k] >>, << "-", D[k] >>, << "+", D[k] >>, << "\\", D[k] >>,
      P_minus3_sp \o << D[k] >>, P_plus3_sp \o << D[k] >>,
      P_minus3_sp, P_minus3_sp \o DEV_NULL, P_plus3_sp \o DEV_NULL,
      << >>, P_diff_sp \o << D[k] >>, HunkLine(k) }

NoFuture == [ id |-> 0, result |-> << >>, pending |-> FALSE ]

EmptyChan == [ full |-> FALSE, val |-> << >> ]

InitPipeline ==
    /\ old_text = << >> /\ new_text = << >> /\ plain_text = << >>
    /\ diff_seen = FALSE
    /\ holder = [ set |-> FALSE, text |-> << >> ]
    /\ prod = "feeding" /\ abort = "none" /\ nlines = 0 /\ input = << >>
    /\ sending = << >> /\ created = << >> /\ pushed = << >>
    /\ queue = << >>
    /\ pool = << >> /\ running = {} /\ chan = << >>
    /\ out_pc = "recv" /\ print_me = NoFuture /\ printed = << >>
    /\ out = << >> /\ sunk = 0 /\ sink = "open"

InitRefIdle ==
    /\ ref_old = << >> /\ ref_new = << >> /\ ref_lines = << >> /\ ref_done = FALSE

\* No TokenCollector has been made
NoRead == [ op |-> "none", val |-> 0 ]

InitTcIdle ==
    /\ tc_pc = "idle" /\ tc_abort = "none"
    /\ line_prefix = [ token |-> << >>, style |-> "Old" ]
    /\ tokens = << >> /\ bytes_count = 0 /\ highlighted_bytes_count = 0
    /\ rendered = FALSE
    /\ tc_text = << >> /\ tc_taken = << >> /\ tc_rows = << >> /\ tc_read = NoRead

\* highlight_diff is not running
InitLoopIdle ==
    /\ hd_pc = "idle" /\ hd_abort = "none" /\ hd_lines = << >>
    /\ hd_old_text = << >> /\ hd_new_text = << >>
    /\ last_line_kind = "Initial" /\ hd_output = << >>

Init == InitPipeline /\ InitRefIdle /\ InitTcIdle /\ InitLoopIdle

\* exit(0) ends every thread of the process
Alive == out_pc # "exited"

\* The ids of the futures among these that still need a worker
RECURSIVE JobIds(_, _)
JobIds(futures, first) ==
    IF futures = << >> THEN << >>
    ELSE (IF Head(futures).kind = "oldnew" THEN << first >> ELSE << >>)
         \o JobIds(Tail(futures), first + 1)

\* The collector's fields and the futures one call leaves behind: the jobs
\* are with the pool at once (thread_pool.execute), the futures wait for
\* room in the queue.
Leave(st) ==
    /\ old_text' = st.old_text
    /\ new_text' = st.new_text
    /\ plain_text' = st.plain_text
    /\ diff_seen' = st.diff_seen
    /\ abort' = st.abort
    /\ created' = created \o st.sends
    /\ chan' = chan \o [ i \in 1..Len(st.sends) |-> EmptyChan ]
    /\ sending' = [ i \in 1..Len(st.sends) |-> Len(created) + i ]
    /\ pool' = pool \o JobIds(st.sends, Len(created) + 1)

Here == Collector(old_text, new_text, plain_text, diff_seen)

\* A consume_line that stores the marker only after it has consumed it: a
\* call that fails its assertion never gets to the store
ConsumeLineStoresLast(line) ==
    /\ Alive /\ prod = "feeding" /\ sending = << >> /\ nlines < MaxLines
    /\ LET st == consume_line(Here, line)
       IN  /\ Leave(st)
           /\ prod' = IF st.abort = "none" THEN "feeding" ELSE "panicked"
           /\ holder' = IF IsMarkerLine(line) /\ st.abort = "none"
                        THEN [ set |-> TRUE, text |-> line ] ELSE holder
    /\ nlines' = nlines + 1
    /\ input' = Append(input, line)
    /\ UNCHANGED << pushed, queue, running, printerVars, refVars, tcVars, loopVars >>

\* The caller passes one line to consume_line
ConsumeLine(line) ==
    /\ Alive /\ prod = "feeding" /\ sending = << >> /\ nlines < MaxLines
    /\ LET st == consume_line(Here, line)
       IN  /\ Leave(st)
           /\ prod' = IF st.abort = "none" THEN "feeding" ELSE "panicked"
    /\ holder' = IF IsMarkerLine(line) THEN [ set |-> TRUE, text |-> line ] ELSE holder
    /\ nlines' = nlines + 1
    /\ input' = Append(input, line)
    /\ UNCHANGED << pushed, queue, running, printerVars, refVars, tcVars, loopVars >>

\* Has the printer dropped its end of the queue?
ReceiverGone == out_pc \in { "done", "panicked" }

\* A send that never waits for room
PushUnbounded ==
    /\ Alive /\ sending # << >> /\ ~ReceiverGone
    /\ queue' = Append(queue, Head(sending))
    /\ pushed' = Append(pushed, Head(sending))
    /\ sending' = Tail(sending)
    /\ UNCHANGED << collectorVars, prod, abort, nlines, input, created, workerVars,
                    printerVars, refVars, tcVars, loopVars >>

\* queue_putter.send(..) gets room in the queue
Push ==
    /\ Alive /\ sending # << >> /\ ~ReceiverGone
    /\ Len(queue) < queue_size
    /\ queue' = Append(queue, Head(sending))
    /\ pushed' = Append(pushed, Head(sending))
    /\ sending' = Tail(sending)
    /\ UNCHANGED << collectorVars, prod, abort, nlines, input, created, workerVars,
                    printerVars, refVars, tcVars, loopVars >>

\* queue_putter.send(..).unwrap() with the printer gone
PushFails ==
    /\ Alive /\ sending # << >> /\ ReceiverGone
    /\ prod' = "panicked" /\ abort' = "send_unwrap"
    /\ sending' = << >>
    /\ UNCHANGED << collectorVars, nlines, input, created, pushed, queue, workerVars,
                    printerVars, refVars, tcVars, loopVars >>

\* Drop for LineCollector: self.drain_oldnew()
DropDrainOldnew ==
    /\ Alive /\ prod = "feeding" /\ sending = << >>
    /\ Leave(drain_oldnew(Here))
    /\ prod' = "drop_plain"
    /\ UNCHANGED << holder, nlines, input, pushed, queue, running, printerVars, refVars, tcVars, loopVars >>

\* Drop for LineCollector: self.drain_plain()
DropDrainPlain ==
    /\ Alive /\ prod = "drop_plain" /\ sending = << >>
    /\ Leave(drain_plain(Here))
    /\ prod' = "drop_sentinel"
    /\ UNCHANGED << holder, nlines, input, pushed, queue, running, printerVars, refVars, tcVars, loopVars >>

\* A Drop that goes on to join without sending the empty string: the
\* printer would wait on the queue for ever
DropWithoutSentinel ==
    /\ Alive /\ prod = "drop_sentinel" /\ sending = << >>
    /\ Leave(Here)
    /\ prod' = "drop_join"
    /\ UNCHANGED << holder, nlines, input, pushed, queue, running, printerVars, refVars, tcVars, loopVars >>

\* Drop for LineCollector: the empty string that asks the printer to quit
DropSentinel ==
    /\ Alive /\ prod = "drop_sentinel" /\ sending = << >>
    /\ Leave([ Here EXCEPT !.sends = << from_string(<< >>) >> ])
    /\ prod' = "drop_join"
    /\ UNCHANGED << holder, nlines, input, pushed, queue, running, printerVars, refVars, tcVars, loopVars >>

\* Drop for LineCollector: consumer_thread.join() returns
DropJoin ==
    /\ Alive /\ prod = "drop_join" /\ sending = << >>
    /\ out_pc \in { "done", "panicked" }
    /\ prod' = "done"
    /\ UNCHANGED << collectorVars, abort, nlines, input, sending, created, pushed,
                    queue, workerVars, printerVars, refVars, tcVars, loopVars >>

\* A free thread of the pool takes the oldest waiting job
WorkerTake ==
    /\ Alive /\ pool # << >> /\ Cardinality(running) < NumCpus
    /\ running' = running \cup { Head(pool) }
    /\ pool' = Tail(pool)
    /\ UNCHANGED << collectorVars, producerVars, queue, chan, printerVars, refVars, tcVars, loopVars >>

\* A worker that finishes its job and throws the result away
WorkerDropsResult(id) ==
    /\ Alive /\ id \in running
    /\ running' = running \ { id }
    /\ UNCHANGED << collectorVars, producerVars, queue, pool, chan, printerVars, refVars,
                    tcVars, loopVars >>

\* A thread of the pool finishes its job: sender.send(result)
WorkerSend(id) ==
    /\ Alive /\ id \in running
    /\ chan' = [ chan EXCEPT ![id] =
                   [ full |-> TRUE, val |-> created[id].answer ] ]
    /\ running' = running \ { id }
    /\ UNCHANGED << collectorVars, producerVars, queue, pool, printerVars, refVars, tcVars, loopVars >>

\* A queue that hands out its newest future first
recv_newest(q) == [ item |-> Last(q), rest |-> Front(q) ]

\* queue_getter.recv(): the oldest future in the queue, and what stays
recv(q) == [ item |-> Head(q), rest |-> Tail(q) ]

\* The StringFuture as it sits in the queue
Future(id) ==
    [ id |-> id, result |-> created[id].text, pending |-> created[id].kind = "oldnew" ]

\* StringFuture::get can return: nothing is pending, or the worker has sent
CanGet(f) == ~f.pending \/ chan[f.id].full

\* A get that goes to the channel every time it is called
get_always_recv(f) == [ f EXCEPT !.result = chan[f.id].val, !.pending = FALSE ]

\* StringFuture::get: a pending future takes its result from the channel
get(f) ==
    IF f.pending THEN [ f EXCEPT !.result = chan[f.id].val, !.pending = FALSE ] ELSE f

\* StringFuture::is_empty
is_empty(f) == get(f).result = << >>

\* The BufWriter and the sink below it; err is what the last call returned
Buf == [ out |-> out, sunk |-> sunk, sink |-> sink, err |-> "none" ]

SinkErrors == { "pipe", "other" }

\* One write of the sink: an open sink takes the bytes or starts failing,
\* a sink that failed before fails the same way again
SinkWrite(b, text) ==
    IF b.sink = "open"
    THEN { [ b EXCEPT !.out = @ \o text, !.sunk = Len(b.out) + Len(text) ] }
         \cup { [ b EXCEPT !.sink = e, !.err = e ] : e \in SinkErrors }
    ELSE { [ b EXCEPT !.err = b.sink ] }

\* BufWriter::flush_buf: write what is buffered, if anything
flush_buf(b) ==
    IF b.sunk = Len(b.out) THEN { b } ELSE SinkWrite(b, << >>)

\* BufWriter::write_all: make room first, then pass a long text straight on
\* and keep a short one
write_all(b, text) ==
    LET flushed == IF (Len(b.out) - b.sunk) + Len(text) > BufCap THEN flush_buf(b) ELSE { b }
        after(f) == IF f.err # "none" THEN { f }
                    ELSE IF Len(text) >= BufCap THEN SinkWrite(f, text)
                    ELSE { [ f EXCEPT !.out = @ \o text ] }
    IN  UNION { after(f) : f \in flushed }

\* Dropping the BufWriter flushes it and throws the result away
drop_bufwriter(b) == { [ f EXCEPT !.err = "none" ] : f \in flush_buf(b) }

SetBuf(b) == out' = b.out /\ sunk' = b.sunk /\ sink' = b.sink

\* The printer takes the next future from the queue
OutRecv ==
    /\ Alive /\ out_pc = "recv" /\ queue # << >>
    /\ print_me' = Future(recv(queue).item)
    /\ queue' = recv(queue).rest
    /\ out_pc' = "is_empty"
    /\ UNCHANGED << collectorVars, producerVars, workerVars, printed, out, sunk, sink,
                    refVars, tcVars, loopVars >>

\* print_me.is_empty(): wait for the result; an empty one ends the loop, and
\* the thread's BufWriter is dropped
OutIsEmpty ==
    /\ Alive /\ out_pc = "is_empty" /\ CanGet(print_me)
    /\ print_me' = get(print_me)
    /\ chan' = IF print_me.pending THEN [ chan EXCEPT ![print_me.id] = EmptyChan ] ELSE chan
    /\ IF is_empty(print_me)
       THEN /\ out_pc' = "done"
            /\ \E b \in drop_bufwriter(Buf) : SetBuf(b)
       ELSE /\ out_pc' = "print"
            /\ UNCHANGED << out, sunk, sink, loopVars >>
    /\ UNCHANGED << collectorVars, producerVars, queue, pool, running, printed, refVars, tcVars, loopVars >>

\* print(&mut output, print_me.get()): a broken pipe ends the process with
\* exit(0), any other error panics the thread, which drops the BufWriter
OutPrint ==
    /\ Alive /\ out_pc = "print"
    /\ \E b \in write_all(Buf, get(print_me).result) :
         IF b.err = "none"
         THEN /\ SetBuf(b)
              /\ printed' = Append(printed, print_me.id)
              /\ print_me' = NoFuture
              /\ out_pc' = "recv"
         ELSE IF b.err = "pipe"
         THEN /\ SetBuf(b)
              /\ out_pc' = "exited"
              /\ UNCHANGED << printed, print_me, loopVars >>
         ELSE /\ \E d \in drop_bufwriter(b) : SetBuf(d)
              /\ out_pc' = "panicked"
              /\ UNCHANGED << printed, print_me, loopVars >>
    /\ UNCHANGED << collectorVars, producerVars, queue, workerVars, refVars, tcVars, loopVars >>

Next ==
    \/ \E line \in InputLines(nlines + 1) : ConsumeLine(line)
    \/ Push
    \/ PushFails
    \/ DropDrainOldnew
    \/ DropDrainPlain
    \/ DropSentinel
    \/ DropJoin
    \/ WorkerTake
    \/ \E id \in running : WorkerSend(id)
    \/ OutRecv
    \/ OutIsEmpty
    \/ OutPrint

Spec == Init /\ [][Next]_vars

\* --------------------------------------------------- the refiner on its own

\* The characters of the texts given to the refiner
RefineAlphabet == { "a", " ", "\n" }

\* Every text of at most MaxText characters
RefineTexts == UNION { [ 1..n -> RefineAlphabet ] : n \in 0..MaxText }

\* The pairs of the refiner's own tests: test_quote_change,
\* test_trailing_whitespace
QUOTES_OLD == << "<", "q", "u", "o", "t", "e", "s", ">", "\n" >>

QUOTES_NEW == << "[", "q", "u", "o", "t", "e", "s", "]", "\n" >>

RefineScenarios ==
    { << QUOTES_OLD, QUOTES_NEW >>,
      << << "x", " ", "\n" >>, << "x", "\n" >> >>,
      << << "y", " ", "\n" >>, << "x", " ", "\n" >> >>,
      << << "x", "\n" >>, << "x", " ", "\n" >> >> }

\* Every pair of short texts, and the pairs of the tests
RefinePairs == (RefineTexts \X RefineTexts) \cup RefineScenarios

\* Refiner::create(old_text, new_text)
InitRefine ==
    /\ InitPipeline /\ InitTcIdle /\ InitLoopIdle
    /\ \E pair \in RefinePairs : ref_old = pair[1] /\ ref_new = pair[2]
    /\ ref_lines = << >> /\ ref_done = FALSE

\* The call of refine on the texts the refiner was made with
Refine ==
    /\ ~ref_done
    /\ ref_lines' = refine(ref_old, ref_new)
    /\ ref_done' = TRUE
    /\ UNCHANGED << ref_old, ref_new, collectorVars, producerVars, queue, workerVars,
                    printerVars, tcVars, loopVars >>

NextRefine == Refine

SpecRefine == InitRefine /\ [][NextRefine]_vars

\* ------------------------------------------------------ token_collector.rs

\* enum Style
Styles == { "Old", "OldInverse", "New", "NewInverse", "Error" }

\* Style::is_inverse
is_inverse(style) == style \in { "OldInverse", "NewInverse", "Error" }

\* An inverted that turns Error into NewInverse
inverted_error_to_new(style) ==
    CASE style = "Old" -> "OldInverse"
      [] style = "New" -> "NewInverse"
      [] style = "OldInverse" -> "OldInverse"
      [] style = "NewInverse" -> "NewInverse"
      [] style = "Error" -> "NewInverse"

\* Style::inverted
inverted(style) ==
    CASE style = "Old" -> "OldInverse"
      [] style = "New" -> "NewInverse"
      [] style = "OldInverse" -> "OldInverse"
      [] style = "NewInverse" -> "NewInverse"
      [] style = "Error" -> "Error"

\* Style::color
color(style) ==
    CASE style = "Old" -> OLD
      [] style = "OldInverse" -> OLD
      [] style = "New" -> NEW_
      [] style = "NewInverse" -> NEW_
      [] style = "Error" -> ERROR

\* StyledToken::new
StyledToken(token, style) == [ token |-> token, style |-> style ]

\* char::is_whitespace, for the characters of the model
WhitespaceChars == { " ", "\t", "\n", "\r" }

TAB == << "\t" >>

\* StyledToken::is_whitespace: exactly one character, and that one whitespace
is_whitespace(tok) == Len(tok.token) = 1 /\ tok.token[1] \in WhitespaceChars

\* StyledToken::is_word: several characters, or one alphanumeric character
is_word(tok) == Len(tok.token) > 1 \/ IsAlphanumeric(tok.token[1])

\* token.style = Style::Error
AsError(tok) == [ tok EXCEPT !.style = "Error" ]

\* A trailing-whitespace rule that restyles every whitespace token of the row
highlight_all_whitespace(row) ==
    [ i \in 1..Len(row) |-> IF is_whitespace(row[i]) THEN AsError(row[i]) ELSE row[i] ]

\* highlight_trailing_whitespace: from the end of the row backwards, until
\* the first token that is not whitespace
RECURSIVE highlight_trailing_whitespace(_)
highlight_trailing_whitespace(row) ==
    IF row = << >> THEN row
    ELSE IF ~is_whitespace(Last(row)) THEN row
    ELSE Append(highlight_trailing_whitespace(Front(row)), AsError(Last(row)))

\* A tab rule that restyles every tab of the row
highlight_every_tab(row) ==
    [ i \in 1..Len(row) |-> IF row[i].token = TAB THEN AsError(row[i]) ELSE row[i] ]

\* highlight_nonleading_tab: the first loop stops on the first token that is
\* not a tab, the second restyles every tab after it
highlight_nonleading_tab(row) ==
    LET others == { i \in 1..Len(row) : row[i].token # TAB }
        first == IF others = {} THEN 0 ELSE CHOOSE i \in others : \A j \in others : i <= j
    IN  [ i \in 1..Len(row) |->
            IF first # 0 /\ i > first /\ row[i].token = TAB THEN AsError(row[i])
            ELSE row[i] ]

\* Is the token an inverse-styled word?
InverseWord(tok) == is_inverse(tok.style) /\ is_word(tok)

\* The loop of highlight_space_between_words from token i on, in state
\* found_state; in WordSpace the token before i is previous_token
RECURSIVE SpaceScan(_, _, _)
SpaceScan(row, i, found_state) ==
    IF i > Len(row) THEN row
    ELSE CASE found_state = "Nothing" ->
                SpaceScan(row, i + 1,
                          IF InverseWord(row[i]) THEN "HighlightedWord" ELSE "Nothing")
           [] found_state = "HighlightedWord" ->
                SpaceScan(row, i + 1,
                          IF is_whitespace(row[i]) THEN "WordSpace"
                          ELSE IF InverseWord(row[i]) THEN "HighlightedWord"
                          ELSE "Nothing")
           [] found_state = "WordSpace" ->
                IF InverseWord(row[i])
                THEN SpaceScan([ row EXCEPT ![i - 1].style = inverted(@) ], i + 1,
                               "HighlightedWord")
                ELSE SpaceScan(row, i + 1, "Nothing")

\* A word-join rule that promotes every whitespace token after an inverse
\* word
highlight_space_after_word(row) ==
    [ i \in 1..Len(row) |->
        IF i > 1 /\ is_whitespace(row[i]) /\ InverseWord(row[i - 1])
        THEN [ row[i] EXCEPT !.style = inverted(@) ] ELSE row[i] ]

\* highlight_space_between_words
highlight_space_between_words(row) == SpaceScan(row, 1, "Nothing")

\* The row as render_row restyles it, rule by rule: the two rules of the
\* added side only under a New prefix, the word-join rule always
RowStages(prefix, row) ==
    LET trailing == IF prefix.style = "New" THEN highlight_trailing_whitespace(row) ELSE row
        tabs == IF prefix.style = "New" THEN highlight_nonleading_tab(trailing) ELSE trailing
    IN  [ pushed |-> row, trailing |-> trailing, tabs |-> tabs,
          words |-> highlight_space_between_words(tabs) ]

\* A loop that writes the inverse escape and the color of every token,
\* changed or not
RECURSIVE EmitTokensAlways(_, _, _)
EmitTokensAlways(row, is_inv, col) ==
    IF row = << >> THEN << >>
    ELSE LET token == Head(row)
         IN  << IF is_inverse(token.style) THEN INVERSE_VIDEO ELSE NOT_INVERSE_VIDEO >>
             \o << color(token.style) >>
             \o token.token
             \o EmitTokensAlways(Tail(row), is_inverse(token.style), color(token.style))

\* The loop of render_row over the restyled tokens: an escape where the
\* inverse flag flips, a color where the color changes, then the token
RECURSIVE EmitTokens(_, _, _)
EmitTokens(row, is_inv, col) ==
    IF row = << >> THEN << >>
    ELSE LET token == Head(row)
         IN  (IF is_inverse(token.style) /\ ~is_inv THEN << INVERSE_VIDEO >> ELSE << >>)
             \o (IF is_inv /\ ~is_inverse(token.style) THEN << NOT_INVERSE_VIDEO >> ELSE << >>)
             \o (IF color(token.style) # col THEN << color(token.style) >> ELSE << >>)
             \o token.token
             \o EmitTokens(Tail(row), is_inverse(token.style), color(token.style))

\* TokenCollector::render_row
render_row(prefix, row) ==
    IF row = << >> THEN << >>
    ELSE (IF is_inverse(prefix.style) THEN << INVERSE_VIDEO >> ELSE << >>)
         \o << color(prefix.style) >> \o prefix.token
         \o EmitTokens(RowStages(prefix, row).words, is_inverse(prefix.style),
                        color(prefix.style))
         \o << NORMAL >>

\* The loop of render: a newline token ends the row, what is left at the
\* end is a row if it is not empty
RECURSIVE RenderFrom(_, _, _)
RenderFrom(prefix, toks, current_row) ==
    IF toks = << >>
    THEN IF current_row = << >> THEN [ text |-> << >>, rows |-> << >> ]
         ELSE [ text |-> render_row(prefix, current_row),
                rows |-> << RowStages(prefix, current_row) >> ]
    ELSE IF Head(toks).token = NL
    THEN LET rest == RenderFrom(prefix, Tail(toks), << >>)
         IN  [ text |-> render_row(prefix, current_row) \o NL \o rest.text,
               rows |-> << RowStages(prefix, current_row) >> \o rest.rows ]
    ELSE RenderFrom(prefix, Tail(toks), Append(current_row, Head(toks)))

\* token.token.len() summed over the tokens, or over the inverse ones only
RECURSIVE BytesOf(_, _)
BytesOf(toks, inverse_only) ==
    IF toks = << >> THEN 0
    ELSE (IF inverse_only /\ ~is_inverse(Head(toks).style) THEN 0 ELSE Len(Head(toks).token))
         + BytesOf(Tail(toks), inverse_only)

\* The texts of the tokens pushed: two words, a space, a tab, a newline
TokenTexts == { << "a" >>, << "a", "b" >>, << " " >>, TAB, NL }

\* The styles the refiner gives the tokens of one side
SideStyles(style) ==
    IF style = "Old" THEN { "Old", "OldInverse" } ELSE { "New", "NewInverse" }

\* The tokens pushed: every text in either style of the side, the newline
\* in the style of the prefix only
PushTokens ==
    { StyledToken(t, st) : t \in TokenTexts \ { NL }, st \in SideStyles(line_prefix.style) }
    \cup { StyledToken(NL, line_prefix.style) }

\* TokenCollector::create, for the removed or for the added side
InitRender ==
    /\ InitPipeline /\ InitRefIdle /\ InitLoopIdle
    /\ tc_pc = "live" /\ tc_abort = "none"
    /\ line_prefix \in { StyledToken(<< "-" >>, "Old"), StyledToken(<< "+" >>, "New") }
    /\ tokens = << >> /\ bytes_count = 0 /\ highlighted_bytes_count = 0
    /\ rendered = FALSE
    /\ tc_text = << >> /\ tc_taken = << >> /\ tc_rows = << >> /\ tc_read = NoRead

\* A failed assert! ends the caller
TcPanic(what) ==
    /\ tc_pc' = "panicked" /\ tc_abort' = what
    /\ UNCHANGED << line_prefix, tokens, bytes_count, highlighted_bytes_count, rendered,
                    tc_text, tc_taken, tc_rows, tc_read, loopVars >>

\* TokenCollector::push; a collector that was rendered is pushed to once
\* more at most
TcPush(tok) ==
    /\ tc_pc = "live" /\ Len(tokens) + Len(tc_taken) < MaxTokens
    /\ rendered => tokens = << >>
    /\ tokens' = Append(tokens, tok)
    /\ UNCHANGED << tc_pc, tc_abort, line_prefix, bytes_count, highlighted_bytes_count,
                    rendered, tc_text, tc_taken, tc_rows, tc_read, loopVars >>

\* What render does past its assertion: take the tokens, count, render
DoRender ==
    LET r == RenderFrom(line_prefix, tokens, << >>)
    IN  /\ tc_text' = r.text /\ tc_rows' = r.rows
        /\ tc_taken' = tokens /\ tokens' = << >>
        /\ bytes_count' = bytes_count + BytesOf(tokens, FALSE)
        /\ highlighted_bytes_count' = highlighted_bytes_count + BytesOf(tokens, TRUE)

\* A render that neither checks nor sets the rendered flag
TcRenderUnchecked ==
    /\ tc_pc = "live"
    /\ DoRender
    /\ UNCHANGED << tc_pc, tc_abort, line_prefix, rendered, tc_read, loopVars >>
    /\ UNCHANGED << collectorVars, producerVars, queue, workerVars, printerVars, refVars, loopVars >>

\* TokenCollector::render
TcRender ==
    /\ tc_pc = "live"
    /\ IF rendered THEN TcPanic("render")
       ELSE /\ DoRender
            /\ rendered' = TRUE
            /\ UNCHANGED << tc_pc, tc_abort, line_prefix, tc_read, loopVars >>
    /\ UNCHANGED << collectorVars, producerVars, queue, workerVars, printerVars, refVars, loopVars >>

\* TokenCollector::chars_count
TcCharsCount ==
    /\ tc_pc = "live"
    /\ IF ~rendered THEN TcPanic("chars_count")
       ELSE /\ tc_read' = [ op |-> "chars_count", val |-> bytes_count ]
            /\ UNCHANGED << tc_pc, tc_abort, line_prefix, tokens, bytes_count,
                            highlighted_bytes_count, rendered, tc_text, tc_taken, tc_rows, loopVars >>
    /\ UNCHANGED << collectorVars, producerVars, queue, workerVars, printerVars, refVars, loopVars >>

\* TokenCollector::highlighted_chars_count
TcHighlightedCharsCount ==
    /\ tc_pc = "live"
    /\ IF ~rendered THEN TcPanic("highlighted_chars_count")
       ELSE /\ tc_read' = [ op |-> "highlighted_chars_count", val |-> highlighted_bytes_count ]
            /\ UNCHANGED << tc_pc, tc_abort, line_prefix, tokens, bytes_count,
                            highlighted_bytes_count, rendered, tc_text, tc_taken, tc_rows, loopVars >>
    /\ UNCHANGED << collectorVars, producerVars, queue, workerVars, printerVars, refVars, loopVars >>

NextRender ==
    \/ \E tok \in PushTokens :
         TcPush(tok) /\ UNCHANGED << collectorVars, producerVars, queue, workerVars,
                                     printerVars, refVars, loopVars >>
    \/ TcRender
    \/ TcCharsCount
    \/ TcHighlightedCharsCount

SpecRender == InitRender /\ [][NextRender]_vars

\* ------------------------------------------ main.rs: the sequential loop

\* ANSI_COLOR_REGEX.replace_all(&line, ""): the line without its escapes
strip_ansi(line) == SelectSeq(line, LAMBDA unit : unit \notin Escapes)

\* main.rs has a table of its own, with the file headers and the hunk header
MAIN_STATIC_HEADER_PREFIXES ==
    << << P_diff_sp, BOLD >>, << P_index_sp, BOLD >>, << P_minus3_sp, BOLD >>,
       << P_plus3_sp, BOLD >>, << P_atat_sp, HUNK_HEADER >> >>

\* get_fixed_highlight of main.rs
main_get_fixed_highlight(line) ==
    LET hits == { i \in 1..Len(MAIN_STATIC_HEADER_PREFIXES) :
                    StartsWith(line, MAIN_STATIC_HEADER_PREFIXES[i][1]) }
    IN  IF hits = {} THEN NoHighlight
        ELSE MAIN_STATIC_HEADER_PREFIXES[CHOOSE i \in hits : \A j \in hits : i <= j][2]

\* print(output, &refiner::format(&old_text, &new_text)), and the two clear()
drain(st) ==
    [ st EXCEPT !.output = @ \o FormatJob(st.old_text, st.new_text),
                !.old_text = << >>,
                !.new_text = << >> ]

\* assert!(text.pop().unwrap() == '\n'): unwrap panics on an empty text, the
\* assert on any other last character
pop_newline(text) ==
    IF text = << >> THEN [ text |-> text, abort |-> "unwrap_none" ]
    ELSE [ text |-> Front(text),
           abort |-> IF Last(text) = "\n" THEN "none" ELSE "assert_newline" ]

\* One turn of the loop of highlight_diff, for the line read from input
highlight_line(st, raw) ==
    LET line == strip_ansi(raw)
        fixed_highlight == main_get_fixed_highlight(line)
        drained == [ drain(st) EXCEPT !.last_line_kind = "Initial" ]
    IN  IF fixed_highlight # NoHighlight
        THEN [ drain(st) EXCEPT !.output = @ \o << fixed_highlight >> \o line \o << NORMAL >> \o NL ]
        ELSE IF line # << >> /\ Head(line) = "+"
        THEN [ st EXCEPT !.new_text = @ \o Tail(line) \o NL, !.last_line_kind = "New" ]
        ELSE IF line # << >> /\ Head(line) = "-"
        THEN [ st EXCEPT !.old_text = @ \o Tail(line) \o NL, !.last_line_kind = "Old" ]
        ELSE IF line = NO_EOF_NEWLINE_MARKER /\ st.last_line_kind = "Old"
        THEN [ st EXCEPT !.old_text = pop_newline(@).text, !.abort = pop_newline(st.old_text).abort ]
        ELSE IF line = NO_EOF_NEWLINE_MARKER /\ st.last_line_kind = "New"
        THEN [ st EXCEPT !.new_text = pop_newline(@).text, !.abort = pop_newline(st.new_text).abort ]
        ELSE IF line = NO_EOF_NEWLINE_MARKER
        THEN [ drained EXCEPT !.output = @ \o << NO_EOF_NEWLINE_COLOR >> \o line \o << NORMAL >> \o NL ]
        ELSE [ drained EXCEPT !.output = @ \o line \o NL ]

\* The lines input may hold as line k: a context line, a removed and an
\* added line, a removed line that arrives colored, the no-newline marker, a
\* hunk header and an empty line
HighlightInputs(k) ==
    { << " ", D[k] >>, << "-", D[k] >>, << "+", D[k] >>, << OLD, "-", D[k], NORMAL >>,
      NO_EOF_NEWLINE_MARKER, HunkLine(k), << >> }

InitSequential ==
    /\ InitPipeline /\ InitRefIdle /\ InitTcIdle
    /\ hd_pc = "loop" /\ hd_abort = "none" /\ hd_lines = << >>
    /\ hd_old_text = << >> /\ hd_new_text = << >>
    /\ last_line_kind = "Initial" /\ hd_output = << >>

\* input.lines() gives one more line
HighlightLine(raw) ==
    /\ hd_pc = "loop" /\ Len(hd_lines) < MaxLines
    /\ LET st == highlight_line(
                   [ old_text |-> hd_old_text, new_text |-> hd_new_text,
                     last_line_kind |-> last_line_kind, output |-> hd_output,
                     abort |-> "none" ], raw)
       IN  /\ hd_old_text' = st.old_text /\ hd_new_text' = st.new_text
           /\ last_line_kind' = st.last_line_kind /\ hd_output' = st.output
           /\ hd_abort' = st.abort
           /\ hd_pc' = IF st.abort = "none" THEN "loop" ELSE "panicked"
    /\ hd_lines' = Append(hd_lines, raw)
    /\ UNCHANGED << collectorVars, producerVars, queue, workerVars, printerVars, refVars,
                    tcVars >>

\* input.lines() is at its end: the last drain
HighlightEnd ==
    /\ hd_pc = "loop"
    /\ hd_output' = hd_output \o FormatJob(hd_old_text, hd_new_text)
    /\ hd_pc' = "done"
    /\ UNCHANGED << hd_abort, hd_lines, hd_old_text, hd_new_text, last_line_kind,
                    collectorVars, producerVars, queue, workerVars, printerVars, refVars,
                    tcVars >>

NextSequential ==
    \/ \E raw \in HighlightInputs(Len(hd_lines) + 1) : HighlightLine(raw)
    \/ HighlightEnd

SpecSequential == InitSequential /\ [][NextSequential]_vars

\* ------------------------------------------------------------------ claims

\* The text a future resolves to
Resolved(f) == IF f.kind = "string" THEN f.text ELSE FormatJob(f.old, f.new)

\* C1: whatever order the workers finish in, the printer writes the resolved
\* texts of the futures in the order they were put in the queue, each one
\* whole before the next begins.
C1_OutputInQueueOrder ==
    /\ printed = SubSeq(pushed, 1, Len(printed))
    /\ out = Concat([ k \in 1..Len(printed) |-> Resolved(created[printed[k]]) ])

\* The printer waits for an old/new block no worker has finished while a
\* later block is already finished.
C1_Witness ==
    /\ out_pc = "is_empty" /\ print_me.pending /\ ~chan[print_me.id].full
    /\ \E j \in 1..Len(chan) : j > print_me.id /\ chan[j].full

\* Where in the output the payload of input line k appears
PayloadAt(k) == Positions(out, D[k])

\* C2: output order is input order at line level: text that came from line i
\* is written before text that came from a later line j.
C2_LineOrder ==
    \A i, j \in 1..MaxLines :
        (i < j) => \A p \in PayloadAt(i), q \in PayloadAt(j) : p < q

\* C3: between calls of consume_line, the old/new block and the plain block
\* are never both non-empty.
C3_OneBlockAtATime ==
    (prod = "feeding") =>
        ~((old_text # << >> \/ new_text # << >>) /\ plain_text # << >>)

\* The printer's steps while the sink keeps taking what it is given
OutIsEmptySinkOpen == OutIsEmpty /\ sink' = "open"

OutPrintSinkOpen == OutPrint /\ sink' = "open"

NextLive ==
    \/ \E line \in InputLines(nlines + 1) : ConsumeLine(line)
    \/ Push
    \/ DropDrainOldnew
    \/ DropDrainPlain
    \/ DropSentinel
    \/ DropJoin
    \/ WorkerTake
    \/ \E id \in running : WorkerSend(id)
    \/ OutRecv
    \/ OutIsEmptySinkOpen
    \/ OutPrintSinkOpen

\* The steps that are not the caller's: the collector's own sends and Drop,
\* the workers and the printer
Progress ==
    \/ Push
    \/ DropDrainPlain
    \/ DropSentinel
    \/ DropJoin
    \/ WorkerTake
    \/ \E id \in running : WorkerSend(id)
    \/ OutRecv
    \/ OutIsEmptySinkOpen
    \/ OutPrintSinkOpen

\* As long as some thread can take a step, some thread does; only the caller
\* is free to stop feeding lines or to never drop the collector.
Fairness == WF_vars(Progress)

\* The pipeline with a sink that never fails, under fair scheduling
LiveSpec == Init /\ [][NextLive]_vars /\ Fairness

Dropping == prod \in { "drop_plain", "drop_sentinel", "drop_join" }

\* Everything but the sentinel is written and has reached the sink, the
\* printer has stopped, and join has returned
TornDown ==
    /\ prod = "done" /\ out_pc = "done"
    /\ printed = Front(pushed)
    /\ sunk = Len(out)
    /\ queue = << >>

\* C4: once the collector is being dropped, and workers and sink make
\* progress, every future put in the queue before the sentinel is written,
\* the printer stops on the sentinel and the join returns.
C4_TeardownTerminates == Dropping ~> TornDown

\* A teardown that had to wait for a worker: three futures written, then done
C4_Witness ==
    /\ TornDown /\ Len(printed) = 3
    /\ \E k \in 1..Len(created) : created[k].kind = "oldnew"

\* C5: no input makes the trailing-newline assertion of the no-newline-marker
\* handler fail.
C5_NoAssertionFailure == abort # "assert_newline"

\* C6: a backslash line takes exactly the final newline off new_text if that
\* is non-empty, else off old_text if that is non-empty, and leaves the plain
\* block and the queue alone; only with both empty the marker becomes a dim
\* line of the plain block.
C6_MarkerEffect ==
    [][ \A line \in InputLines(nlines + 1) :
          (IsMarkerLine(line) /\ ConsumeLine(line)) =>
            IF new_text # << >>
            THEN /\ new_text = new_text' \o NL
                 /\ UNCHANGED << old_text, plain_text, queue, created, sending >>
            ELSE IF old_text # << >>
            THEN /\ old_text = old_text' \o NL
                 /\ UNCHANGED << new_text, plain_text, queue, created, sending >>
            ELSE /\ plain_text' =
                      plain_text \o << NO_EOF_NEWLINE_COLOR >> \o line \o << NORMAL >> \o NL
                 /\ UNCHANGED << old_text, new_text, queue, created, sending >>
      ]_vars

\* The dim line the claim expects: the captured marker, the built-in text
\* only while nothing is captured
CapturedMarkerLine ==
    << NO_EOF_NEWLINE_COLOR >>
    \o (IF holder.set THEN holder.text ELSE NO_EOF_NEWLINE_MARKER)
    \o << NORMAL >>

LacksNewline(text) == text # << >> /\ ~EndsWithNewline(text)

\* C7: a side that does not end in a newline gets a dim line holding the
\* marker captured from the input.
C7_CapturedMarkerUsed ==
    [][ \A id \in running :
          (WorkerSend(id) /\ (LacksNewline(created[id].old) \/ LacksNewline(created[id].new)))
            => Contains(chan'[id].val, CapturedMarkerLine)
      ]_vars

\* Was the line before this one a --- header?
AfterMinusHeader == input # << >> /\ StartsWith(Last(input), P_minus3_sp)

\* C8: a +++ line that does not follow a --- line changes nothing and
\* produces nothing.
C8_LonePlusHeaderDropped ==
    [][ \A line \in InputLines(nlines + 1) :
          (StartsWith(line, P_plus3_sp) /\ ~AfterMinusHeader /\ ConsumeLine(line))
            => UNCHANGED << old_text, new_text, plain_text, queue, created, sending >>
      ]_vars

\* C9: a broken pipe ends the process successfully with nothing more written
\* (exit(0), or the printer's normal end when the pipe breaks at the last
\* flush); any other error the sink answers with is a panic, the last flush
\* included.
C9_NoWriteErrorIgnored ==
    /\ (sink = "pipe") => out_pc \in { "exited", "done" }
    /\ (sink = "other") => out_pc = "panicked"

\* The side refine was given when the other side is empty, with its color
\* and prefix
OneSided == ref_done /\ (ref_old = << >> \/ ref_new = << >>)

TheSide ==
    IF ref_new = << >> THEN [ t |-> ref_old, color |-> OLD, prefix |-> "-" ]
    ELSE [ t |-> ref_new, color |-> NEW_, prefix |-> "+" ]

\* Line i of the answer is line i of t between its color, prefix and NORMAL
LineForLine ==
    \A i \in 1..Len(Lines(TheSide.t)) :
        /\ i <= Len(ref_lines)
        /\ ref_lines[i] = << TheSide.color, TheSide.prefix >> \o Lines(TheSide.t)[i]
                            \o << NORMAL >>

NoInverseVideo == \A i \in 1..Len(ref_lines) : Positions(ref_lines[i], INVERSE_VIDEO) = {}

\* C10 as claimed: with one side empty, refine returns one line per line of
\* the other side t, each as color + prefix + line + NORMAL, and nothing
\* else; no inverse video.
C10_OneLinePerLine ==
    OneSided => /\ Len(ref_lines) = Len(Lines(TheSide.t))
                /\ LineForLine
                /\ NoInverseVideo

\* C10, amended: with one side empty, refine returns one line per line of
\* the other side t, each as color + prefix + line + NORMAL, followed by one
\* dim no-newline marker line exactly when t is non-empty and does not end
\* in a newline; no inverse video.
C10_SimpleFormatOfOneSide ==
    OneSided =>
        /\ LineForLine
        /\ IF TheSide.t # << >> /\ Last(TheSide.t) # "\n"
           THEN /\ Len(ref_lines) = Len(Lines(TheSide.t)) + 1
                /\ Last(ref_lines) =
                     << NO_EOF_NEWLINE_COLOR >> \o NO_EOF_NEWLINE_MARKER \o << NORMAL >>
           ELSE Len(ref_lines) = Len(Lines(TheSide.t))
        /\ NoInverseVideo

\* Two lines without a final newline on the old side, nothing on the new
\* side: three lines come back
C10_Witness ==
    /\ ref_done /\ ref_new = << >>
    /\ Len(Lines(ref_old)) = 2 /\ ~EndsWithNewline(ref_old)
    /\ Len(ref_lines) = 3

\* The edit script refine walks for the texts it was given
RefEdits == Diff(tokenize(ref_old), tokenize(ref_new))

BothSides == ref_done /\ ref_old # << >> /\ ref_new # << >>

\* The maximal runs of Insert / Remove edits, as << first, last >>
ChangeRuns(edits) ==
    { r \in (1..Len(edits)) \X (1..Len(edits)) :
        /\ r[1] <= r[2]
        /\ \A k \in r[1]..r[2] : edits[k].op # "Copy"
        /\ r[1] = 1 \/ edits[r[1] - 1].op = "Copy"
        /\ r[2] = Len(edits) \/ edits[r[2] + 1].op = "Copy" }

\* The newline boundaries the tokens of one kind (Insert or Remove) of a run
\* touch: the token before the run or the start of the text, every newline
\* among them, the token after the run or the end of the text
Touches(edits, r, op) ==
    LET mine == { k \in r[1]..r[2] : edits[k].op = op }
        before == IF r[1] = 1 \/ edits[r[1] - 1].elem = NL THEN 1 ELSE 0
        after == IF r[2] = Len(edits) \/ edits[r[2] + 1].elem = NL THEN 1 ELSE 0
        inner == Cardinality({ k \in mine : edits[k].elem = NL })
    IN  IF mine = {} THEN 0 ELSE before + inner + after

TouchesLines(edits, r) ==
    Touches(edits, r, "Insert") >= 2 \/ Touches(edits, r, "Remove") >= 2

\* C11: with both sides non-empty, a changed run that touches two or more
\* newline boundaries is rendered without inverse video on both sides, a run
\* that touches fewer is rendered with it.  Stated for the blocks whose runs
\* are all of one kind: all touching -> no inverse video anywhere, none
\* touching -> inverse video somewhere.
C11_SuppressedByNewlines ==
    BothSides =>
        LET runs == ChangeRuns(RefEdits)
        IN  /\ (\A r \in runs : TouchesLines(RefEdits, r)) => NoInverseVideo
            /\ (runs # {} /\ \A r \in runs : ~TouchesLines(RefEdits, r))
                  => ~NoInverseVideo

\* The line the quote scenario expects for one side: color, the bracket in
\* inverse video, the word, the other bracket in inverse video, NORMAL; with
\* or without the side's prefix character
QuoteLine(base, prefix, open, close) ==
    << base >> \o prefix \o << INVERSE_VIDEO, open, NOT_INVERSE_VIDEO,
                                "q", "u", "o", "t", "e", "s",
                                INVERSE_VIDEO, close, NORMAL >>

\* C12: in a refined block a changed run is opened by one InverseVideo and
\* the next unchanged token on the line is preceded by one NotInverseVideo;
\* for old <quotes> / new [quotes] the old line is
\* Old + InverseVideo + < + NotInverseVideo + quotes + InverseVideo + > + Normal
\* and the new line the same with [ and ].
C12_QuoteChange ==
    (ref_done /\ ref_old = QUOTES_OLD /\ ref_new = QUOTES_NEW) =>
        /\ Len(ref_lines) = 2
        /\ ref_lines[1] \in { QuoteLine(OLD, << >>, "<", ">"),
                               QuoteLine(OLD, << "-" >>, "<", ">") }
        /\ ref_lines[2] \in { QuoteLine(NEW_, << >>, "[", "]"),
                               QuoteLine(NEW_, << "+" >>, "[", "]") }

\* Is the token a run of alphanumeric characters?
IsWordToken(tok) == tok # << >> /\ \A k \in 1..Len(tok) : IsAlphanumeric(tok[k])

\* What the tokenizer owes for one text
TokensCover(t) ==
    LET toks == tokenize(t)
    IN  /\ Concat(toks) = t
        /\ \A k \in 1..Len(toks) :
              /\ toks[k] # << >>
              /\ IsWordToken(toks[k]) \/ (Len(toks[k]) = 1 /\ ~IsAlphanumeric(toks[k][1]))
              /\ (Positions(toks[k], "\n") # {}) => toks[k] = NL
        /\ \A k \in 1..(Len(toks) - 1) : ~(IsWordToken(toks[k]) /\ IsWordToken(toks[k + 1]))

\* C17: the tokens of a text concatenate back to the text, none is empty,
\* each is a maximal run of alphanumeric characters or one other character,
\* and only the newline token holds a newline.
C17_TokensCoverText == TokensCover(ref_old) /\ TokensCover(ref_new)

\* refine has tokenized a two-letter word followed by a newline
C17_Witness ==
    /\ BothSides
    /\ \E k \in 1..(Len(tokenize(ref_old)) - 1) :
          Len(tokenize(ref_old)[k]) = 2 /\ tokenize(ref_old)[k + 1] = NL

\* C20: with both sides non-empty, the unchanged tokens pushed to the old
\* text are the unchanged tokens pushed to the new text, the same ones in
\* the same order.
C20_CopySymmetry ==
    BothSides =>
        /\ Highlighted(ref_old, ref_new).old_copies = Highlighted(ref_old, ref_new).new_copies
        /\ Len(Highlighted(ref_old, ref_new).old_copies)
             = Len(Highlighted(ref_old, ref_new).new_copies)

\* A block with an unchanged token between a removed and an inserted one
C20_Witness ==
    /\ BothSides
    /\ Highlighted(ref_old, ref_new).old_copies # << >>
    /\ Highlighted(ref_old, ref_new).old_highlight_count > 0
    /\ Highlighted(ref_old, ref_new).new_highlight_count > 0

\* C18: the queue never holds more futures than its capacity, and a send on
\* a full queue waits; so the futures made but not yet written are at most
\* capacity + 2: those in the queue, the one the printer holds and the one
\* the producer is sending.
C18_QueueBounded ==
    /\ Len(queue) <= queue_size
    /\ Len(created) - Len(printed) <= queue_size + 2

\* The producer waits with a future in hand: the queue is full and the
\* printer waits for a worker
C18_Witness ==
    /\ Len(queue) = queue_size /\ sending # << >>
    /\ out_pc = "is_empty" /\ ~CanGet(print_me)
    /\ Len(created) - Len(printed) = queue_size + 2
    /\ ~ENABLED Push

\* The tokens of a row from which on there is nothing but whitespace
TrailingRun(row) ==
    { i \in 1..Len(row) : \A j \in i..Len(row) : is_whitespace(row[j]) }

\* C13: when a collector with a New prefix is rendered, in every row each
\* token of the whitespace run at the end of the row gets Error style and
\* the rule changes no token before that run; with an Old prefix no token of
\* any row is restyled to Error.
C13_TrailingWhitespace ==
    rendered =>
        \A k \in 1..Len(tc_rows) :
            LET row == tc_rows[k].pushed
                after == tc_rows[k].trailing
            IN  /\ Len(after) = Len(row)
                /\ IF line_prefix.style = "New"
                   THEN \A i \in 1..Len(row) :
                            after[i] = IF i \in TrailingRun(row) THEN AsError(row[i])
                                       ELSE row[i]
                   ELSE /\ after = row
                        /\ \A i \in 1..Len(row) :
                              tc_rows[k].words[i].style = "Error" => row[i].style = "Error"

\* An added row of four tokens: whitespace, a word, then two whitespace
\* tokens that end the row
C13_Witness ==
    /\ rendered /\ line_prefix.style = "New"
    /\ \E k \in 1..Len(tc_rows) :
          /\ Len(tc_rows[k].pushed) = 4
          /\ TrailingRun(tc_rows[k].pushed) = { 3, 4 }
          /\ is_whitespace(tc_rows[k].pushed[1])
          /\ tc_rows[k].trailing[1].style # "Error"
          /\ tc_rows[k].trailing[4].style = "Error"

\* Does a token that is not a tab come before token i of the row?
AfterNonTab(row, i) == \E j \in 1..(i - 1) : row[j].token # TAB

BetweenInverseWords(row, i) ==
    /\ is_whitespace(row[i])
    /\ 1 < i /\ i < Len(row)
    /\ InverseWord(row[i - 1]) /\ InverseWord(row[i + 1])

\* C15: in every row the word-join rule gives a token its inverted style
\* exactly if it is a whitespace token whose neighbours on both sides are
\* inverse-styled words; every other token, two whitespace tokens between
\* two words included, stays as it was.
C15_WordJoin ==
    rendered =>
        \A k \in 1..Len(tc_rows) :
            LET before == tc_rows[k].tabs
                after == tc_rows[k].words
            IN  /\ Len(after) = Len(before)
                /\ \A i \in 1..Len(before) :
                      after[i] = IF BetweenInverseWords(before, i)
                                 THEN [ before[i] EXCEPT !.style = inverted(@) ]
                                 ELSE before[i]

\* A row with a space between two inverse words that was promoted
C15_Witness ==
    /\ rendered
    /\ \E k \in 1..Len(tc_rows) :
          /\ Len(tc_rows[k].tabs) >= 3
          /\ BetweenInverseWords(tc_rows[k].tabs, 2)
          /\ ~is_inverse(tc_rows[k].tabs[2].style)
          /\ is_inverse(tc_rows[k].words[2].style)

\* C16: the first render succeeds and marks the collector rendered, any
\* later render fails its assertion; chars_count and highlighted_chars_count
\* fail theirs before render, and after it return the counts of the tokens
\* render took, which nothing changes any more.
C16_SingleUse ==
    [][ /\ TcRender =>
             IF rendered THEN tc_pc' = "panicked" /\ tc_abort' = "render"
             ELSE rendered' /\ tc_pc' = "live"
        /\ TcCharsCount =>
             IF ~rendered THEN tc_pc' = "panicked" /\ tc_abort' = "chars_count"
             ELSE tc_pc' = "live" /\ tc_read'.val = BytesOf(tc_taken, FALSE)
        /\ TcHighlightedCharsCount =>
             IF ~rendered THEN tc_pc' = "panicked" /\ tc_abort' = "highlighted_chars_count"
             ELSE tc_pc' = "live" /\ tc_read'.val = BytesOf(tc_taken, TRUE)
        /\ rendered => (rendered' /\ UNCHANGED << bytes_count, highlighted_bytes_count >>)
      ]_vars

\* Rendered once, a count read, more tokens pushed, and a second render
\* that failed
C16_Witness ==
    /\ tc_pc = "panicked" /\ tc_abort = "render" /\ rendered
    /\ tc_read.op = "chars_count" /\ tc_read.val > 0
    /\ tokens # << >>

\* The styles of the collector's prefix, of its tokens and of the tokens of
\* the rows it has rendered: every one of the five is in use in some state
StylesInUse ==
    { line_prefix.style }
    \cup { tokens[i].style : i \in 1..Len(tokens) }
    \cup UNION { { tc_rows[k].words[i].style : i \in 1..Len(tc_rows[k].words) } :
                 k \in 1..Len(tc_rows) }

\* C19: inverted takes Old to OldInverse and New to NewInverse and leaves
\* OldInverse, NewInverse and Error alone; it is idempotent, its result is
\* always inverse and has the color of its argument; is_inverse holds of
\* exactly OldInverse, NewInverse and Error.
C19_StyleConsistent ==
    \A st \in StylesInUse :
        /\ inverted(st) = (IF st = "Old" THEN "OldInverse"
                           ELSE IF st = "New" THEN "NewInverse" ELSE st)
        /\ inverted(inverted(st)) = inverted(st)
        /\ is_inverse(inverted(st))
        /\ color(inverted(st)) = color(st)
        /\ is_inverse(st) <=> st \in { "OldInverse", "NewInverse", "Error" }

\* A render of the removed side in which inverted took a token from Old to
\* OldInverse
C19_Witness ==
    /\ rendered /\ line_prefix.style = "Old"
    /\ \E k \in 1..Len(tc_rows) : \E i \in 1..Len(tc_rows[k].tabs) :
          /\ tc_rows[k].tabs[i].style = "Old"
          /\ tc_rows[k].words[i].style = "OldInverse"
    /\ StylesInUse \subseteq Styles

\* Nothing was handed to the queue or to the pool by this step
NothingDispatched ==
    created' = created /\ sending' = << >> /\ pool' = pool /\ queue' = queue

\* This step made exactly one future, the given one, and it is on its way to
\* the queue; jobs are the ids the step gave to the pool
OneDispatched(future, jobs) ==
    /\ created' = Append(created, future)
    /\ sending' = << Len(created) + 1 >>
    /\ pool' = pool \o jobs
    /\ queue' = queue

\* What a flush of the old/new block does to the futures
OldnewFlushed ==
    IF old_text = << >> /\ new_text = << >>
    THEN NothingDispatched
    ELSE \E f \in { created'[i] : i \in 1..Len(created') } :
            /\ f.kind = "oldnew" /\ f.old = old_text /\ f.new = new_text
            /\ OneDispatched(f, << Len(created) + 1 >>)

\* What a flush of the plain block does to the futures
PlainFlushed ==
    IF plain_text = << >>
    THEN NothingDispatched
    ELSE \E f \in { created'[i] : i \in 1..Len(created') } :
            /\ f.kind = "string" /\ f.text = plain_text
            /\ OneDispatched(f, << >>)

\* The step is the call consume_line(line)
Consumes(line) == nlines' = nlines + 1 /\ Last(input') = line

\* C21: a flush of the old/new block with both buffers empty changes
\* nothing; otherwise it dispatches exactly one diff future holding the
\* current old_text and new_text, leaves both empty and plain_text as it
\* was.  A flush of the plain block is the same with the roles exchanged:
\* exactly one finished future holding plain_text, or nothing.  Checked on
\* the two flushes of Drop and on the flush that opens the handling of an
\* empty line and of a removed line.
C21_FlushFrames ==
    [][ /\ (prod = "feeding" /\ prod' = "drop_plain") =>
              /\ OldnewFlushed
              /\ old_text' = << >> /\ new_text' = << >> /\ plain_text' = plain_text
        /\ (prod = "drop_plain" /\ prod' = "drop_sentinel") =>
              /\ PlainFlushed
              /\ plain_text' = << >> /\ old_text' = old_text /\ new_text' = new_text
        /\ Consumes(<< >>) =>
              /\ OldnewFlushed
              /\ old_text' = << >> /\ new_text' = << >> /\ plain_text' = plain_text \o NL
        /\ (\E k \in 1..MaxLines : Consumes(<< "-", D[k] >>)) =>
              /\ PlainFlushed
              /\ plain_text' = << >> /\ new_text' = new_text
              /\ old_text' = old_text \o Tail(Last(input')) \o NL
      ]_vars

\* Drop has just flushed an old/new block while the plain block holds text:
\* the diff future is on its way and the plain text is still there
C21_Witness ==
    /\ prod = "drop_plain" /\ Len(sending) = 1
    /\ created[sending[1]].kind = "oldnew"
    /\ created[sending[1]].old # << >>
    /\ old_text = << >> /\ new_text = << >> /\ plain_text # << >>

\* C22: at teardown at most one of drain_oldnew and drain_plain hands a
\* future to the queue: when the drain_oldnew of Drop has made one (it is
\* still on its way to the queue), plain_text is empty, so that the
\* drain_plain that follows makes none.
C22_OneFlushAtTeardown ==
    (prod = "drop_plain" /\ sending # << >>) => plain_text = << >>

\* What the printer will find the future to hold
ResolvedText(id) ==
    IF created[id].kind = "oldnew" THEN created[id].answer ELSE created[id].text

\* Has Drop made its sentinel?
SentinelMade == prod \in { "drop_join", "done" } \/ abort = "send_unwrap"

\* C23: the only future that resolves to the empty text is the sentinel of
\* Drop, the last future made: no future of drain_plain or drain_oldnew is
\* empty.  So a printer that has left its loop has taken the sentinel, has
\* written every future pushed before it and has left nothing in the queue.
C23_SentinelUnambiguous ==
    /\ \A id \in 1..Len(created) :
          ResolvedText(id) = << >> =>
            /\ id = Len(created) /\ SentinelMade
            /\ created[id].kind = "string"
    /\ out_pc = "done" =>
          /\ print_me.id = Len(created) /\ SentinelMade
          /\ queue = << >>
          /\ printed = Front(pushed)

\* The printer has stopped on the sentinel after writing a plain future and
\* a diff future
C23_Witness ==
    /\ out_pc = "done" /\ Len(printed) >= 2
    /\ \E i, j \in 1..Len(printed) :
          created[printed[i]].kind = "oldnew" /\ created[printed[j]].kind = "string"

\* Where in the input the no-newline marker lines are
MarkerPositions == { k \in 1..Len(input) : IsMarkerLine(input[k]) }

InPool(id) == \E k \in 1..Len(pool) : pool[k] = id

\* Has the printer taken the result of this future off its channel?
Received(id) ==
    \/ print_me.id = id /\ ~print_me.pending
    \/ \E k \in 1..Len(printed) : printed[k] = id

\* C25: the result channel of a diff future is used once.  Only the worker
\* that runs the job sends on it, once, and finds it empty (the send does
\* not wait); only the printer's first get on the future receives from it,
\* and stores the value; from then on get and is_empty answer with the
\* stored value and nothing touches the channel again.
C25_OneShotChannel ==
    [][ \A id \in 1..Len(created) :
          /\ id \in running => ~chan[id].full /\ ~Received(id) /\ ~InPool(id)
          /\ chan[id].full => created[id].kind = "oldnew" /\ ~Received(id) /\ ~InPool(id)
          /\ (~chan[id].full /\ chan'[id].full) =>
                /\ id \in running /\ id \notin running'
                /\ chan'[id].val = created[id].answer
          /\ (chan[id].full /\ ~chan'[id].full) =>
                /\ print_me.id = id /\ print_me.pending
                /\ print_me' = [ print_me EXCEPT !.result = chan[id].val, !.pending = FALSE ]
          /\ (Received(id) /\ created[id].kind = "oldnew") =>
                /\ chan'[id] = chan[id] /\ ~chan[id].full
                /\ id \notin running'
                /\ print_me.id = id =>
                      /\ is_empty(print_me) = (print_me.result = << >>)
                      /\ get(print_me) = print_me
                      /\ print_me'.id = id => print_me' = print_me
          /\ (print_me.id = id /\ ~print_me.pending /\ print_me'.id = id) =>
                print_me'.result = print_me.result
      ]_vars

\* The printer has received the result of a diff future and is about to
\* call get on it a second time, to print it
C25_Witness ==
    /\ out_pc = "print" /\ print_me.id \in 1..Len(created)
    /\ created[print_me.id].kind = "oldnew"
    /\ ~print_me.pending /\ print_me.result = created[print_me.id].answer
    /\ ~chan[print_me.id].full /\ running # {}

\* The pool on a machine with one logical core: its only thread takes the
\* oldest waiting job when it is free
WorkerTakeOne == WorkerTake /\ running = {}

NextOneWorker ==
    \/ \E line \in InputLines(nlines + 1) : ConsumeLine(line)
    \/ Push
    \/ DropDrainOldnew
    \/ DropDrainPlain
    \/ DropSentinel
    \/ DropJoin
    \/ WorkerTakeOne
    \/ \E id \in running : WorkerSend(id)
    \/ OutRecv
    \/ OutIsEmptySinkOpen
    \/ OutPrintSinkOpen

\* The steps of the collector's sends and Drop, of the worker and of the
\* printer
ProgressOneWorker ==
    \/ Push
    \/ DropDrainPlain
    \/ DropSentinel
    \/ DropJoin
    \/ WorkerTakeOne
    \/ \E id \in running : WorkerSend(id)
    \/ OutRecv
    \/ OutIsEmptySinkOpen
    \/ OutPrintSinkOpen

\* The pipeline with one worker behind a queue of queue_size futures, a sink
\* that never fails, and fair scheduling: more diff blocks can be waiting
\* than there are workers
LiveSpecOneWorker == Init /\ [][NextOneWorker]_vars /\ WF_vars(ProgressOneWorker)

\* Is there a future that is made and not yet taken by the printer, or a
\* job not yet computed?
WorkRemains ==
    \/ sending # << >> \/ queue # << >>
    \/ pool # << >> \/ running # {}
    \/ out_pc \in { "is_empty", "print" }

\* The diff futures made so far whose text is not written yet
DiffsPending ==
    { id \in 1..Len(created) :
        created[id].kind = "oldnew" /\ \A k \in 1..Len(printed) : printed[k] # id }

\* C26: the pipeline does not deadlock.  While a future is on its way or a
\* job is not computed, one of producer, worker and printer can take a step;
\* and under fair scheduling the diff futures that are made and not yet
\* written are all written in the end (what is written stays written), also
\* when the queue is full and more diff blocks are waiting than there are
\* workers.
C26_NoDeadlock ==
    /\ [](WorkRemains => ENABLED ProgressOneWorker)
    /\ (DiffsPending # {}) ~> (DiffsPending = {})

\* The producer waits for room in the full queue, the printer waits for the
\* result of a diff future, and two diff blocks wait for the one worker
C26_Witness ==
    /\ sending # << >> /\ Len(queue) = queue_size
    /\ out_pc = "is_empty" /\ print_me.pending /\ ~chan[print_me.id].full
    /\ Cardinality(DiffsPending) >= 2
    /\ Len(pool) + Cardinality(running) >= 2

\* The loop states of refine, from before the first edit to after the last
RECURSIVE HighlightTrace(_, _)
HighlightTrace(h, edits) ==
    IF edits = << >> THEN << h >>
    ELSE << h >> \o HighlightTrace(HighlightEdit(h, Head(edits)), Tail(edits))

\* The loop states for the texts the refiner was made with
RefTrace == HighlightTrace(HighlightInit, RefEdits)

\* Does the refiner go through the edits one by one?
Diffed == BothSides /\ tokenize(ref_old) # tokenize(ref_new)

\* C27: an inserted or removed token that is a newline is written as the
\* glyph directly followed by the newline, and the side's inverse flag is
\* down after it; so the flag of a side is down after every newline that
\* ends that side's highlighted text, an Insert or Remove that follows a
\* newline on its side starts with InverseVideo, and in the refiner's
\* answer the glyph is the last character of its line.
C27_NewlineDropsInverse ==
    Diffed =>
        /\ \A k \in 1..Len(RefEdits) :
              LET e == RefEdits[k]
                  b == RefTrace[k]
                  a == RefTrace[k + 1]
              IN  /\ (e.op = "Insert" /\ e.elem = NL) =>
                        /\ \E p \in { << >>, << INVERSE_VIDEO >> } :
                              a.highlighted_new_text =
                                  b.highlighted_new_text \o p \o << NEWLINE_GLYPH, "\n" >>
                        /\ ~a.new_is_inverse
                  /\ (e.op = "Remove" /\ e.elem = NL) =>
                        /\ \E p \in { << >>, << INVERSE_VIDEO >> } :
                              a.highlighted_old_text =
                                  b.highlighted_old_text \o p \o << NEWLINE_GLYPH, "\n" >>
                        /\ ~a.old_is_inverse
                  /\ EndsWithNewline(a.highlighted_new_text) => ~a.new_is_inverse
                  /\ EndsWithNewline(a.highlighted_old_text) => ~a.old_is_inverse
                  /\ (e.op = "Insert" /\ EndsWithNewline(b.highlighted_new_text)) =>
                        StartsWith(a.highlighted_new_text,
                                   b.highlighted_new_text \o << INVERSE_VIDEO >>)
                  /\ (e.op = "Remove" /\ EndsWithNewline(b.highlighted_old_text)) =>
                        StartsWith(a.highlighted_old_text,
                                   b.highlighted_old_text \o << INVERSE_VIDEO >>)
        /\ \A i \in 1..Len(ref_lines) :
              Positions(ref_lines[i], NEWLINE_GLYPH) \subseteq { Len(ref_lines[i]) - 1 }

\* An inserted newline in the middle of an inserted run: the run goes on
\* with a second InverseVideo on the next line
C27_Witness ==
    /\ Diffed
    /\ \E k \in 1..(Len(RefEdits) - 1) :
          /\ RefEdits[k].op = "Insert" /\ RefEdits[k].elem = NL
          /\ RefEdits[k + 1].op = "Insert" /\ RefEdits[k + 1].elem # NL
          /\ RefTrace[k].new_is_inverse
    /\ \E i \in 1..Len(ref_lines) : Positions(ref_lines[i], NEWLINE_GLYPH) # {}
    /\ \E i \in 1..Len(ref_lines) :
          StartsWith(ref_lines[i], << NEW_, "+", INVERSE_VIDEO >>)

\* The three-state machine as the design states it: Nothing to
\* HighlightedWord on an inverse word, HighlightedWord to WordSpace on a
\* whitespace token, WordSpace to HighlightedWord on an inverse word, which
\* promotes the token before it; every other input, in every state, leads to
\* Nothing
RECURSIVE ReferenceScan(_, _, _)
ReferenceScan(row, i, found_state) ==
    IF i > Len(row) THEN row
    ELSE IF found_state = "Nothing" /\ InverseWord(row[i])
         THEN ReferenceScan(row, i + 1, "HighlightedWord")
    ELSE IF found_state = "HighlightedWord" /\ is_whitespace(row[i])
         THEN ReferenceScan(row, i + 1, "WordSpace")
    ELSE IF found_state = "WordSpace" /\ InverseWord(row[i])
         THEN ReferenceScan([ row EXCEPT ![i - 1].style = inverted(@) ], i + 1,
                            "HighlightedWord")
    ELSE ReferenceScan(row, i + 1, "Nothing")

\* C28: on every row highlight_space_between_words leaves the styles that
\* the three-state machine of the design leaves.
C28_MatchesReferenceMachine ==
    \A k \in 1..Len(tc_rows) :
        tc_rows[k].words = ReferenceScan(tc_rows[k].tabs, 1, "Nothing")

\* No color is active at the start of a row
NoColor == "none"

\* A terminal reads the text of one row, inv and col being the inverse flag
\* and the color its escapes have set so far, toks the tokens still to
\* come: every inverse escape flips the flag, every color escape changes
\* the color, each token arrives with the flag and color of its style, and
\* NORMAL ends the row after the last token
RECURSIVE ReadsWell(_, _, _, _)
ReadsWell(text, toks, inv, col) ==
    IF text = << >> THEN FALSE
    ELSE CASE Head(text) = NORMAL -> toks = << >> /\ Tail(text) = << >>
           [] Head(text) = INVERSE_VIDEO -> ~inv /\ ReadsWell(Tail(text), toks, TRUE, col)
           [] Head(text) = NOT_INVERSE_VIDEO -> inv /\ ReadsWell(Tail(text), toks, FALSE, col)
           [] Head(text) \in { OLD, NEW_, ERROR } ->
                Head(text) # col /\ ReadsWell(Tail(text), toks, inv, Head(text))
           [] OTHER ->
                /\ toks # << >>
                /\ StartsWith(text, Head(toks).token)
                /\ inv = is_inverse(Head(toks).style)
                /\ col = color(Head(toks).style)
                /\ ReadsWell(StripPrefix(text, Head(toks).token), Tail(toks), inv, col)

\* The text of row k of the render
RowText(k) == Lines(tc_text)[k]

\* C29: in every rendered row an inverse escape is written only where the
\* inverse flag changes and a color only where the color changes, so no
\* escape leaves the terminal as it was; and every token, the prefix
\* included, is written with the terminal in the inverse state and color of
\* the token's style.
C29_MinimalEscapes ==
    rendered =>
        \A k \in 1..Len(tc_rows) :
            tc_rows[k].pushed # << >> =>
                ReadsWell(RowText(k), << line_prefix >> \o tc_rows[k].words, FALSE, NoColor)

\* A rendered added row where the inverse flag goes up and down again, the
\* color changes to that of Error, and two tokens of one style follow each
\* other with no escape between them
C29_Witness ==
    /\ rendered /\ line_prefix.style = "New"
    /\ \E k \in 1..Len(tc_rows) :
          /\ Len(tc_rows[k].words) = 4
          /\ Positions(RowText(k), INVERSE_VIDEO) # {}
          /\ Positions(RowText(k), NOT_INVERSE_VIDEO) # {}
          /\ Positions(RowText(k), ERROR) # {}
          /\ tc_rows[k].words[1].style = tc_rows[k].words[2].style

\* C30: every row of a render, one per newline token and one more when
\* tokens follow the last newline, starts with the prefix in the prefix's
\* color and ends with NORMAL, a row without tokens included; and the text
\* holds as many newlines as there were newline tokens.
C30_EveryRowFramed ==
    rendered =>
        /\ \A k \in 1..Len(tc_rows) :
              /\ StartsWith(RowText(k), << color(line_prefix.style) >> \o line_prefix.token)
              /\ Last(RowText(k)) = NORMAL
        /\ Cardinality(Positions(tc_text, "\n"))
             = Cardinality({ i \in 1..Len(tc_taken) : tc_taken[i].token = NL })

\* The byte length of the tokens the rows of the render show in an inverse
\* style, from row k on
RECURSIVE InverseBytesFrom(_)
InverseBytesFrom(k) ==
    IF k > Len(tc_rows) THEN 0
    ELSE BytesOf(tc_rows[k].words, TRUE) + InverseBytesFrom(k + 1)

\* The newline tokens render took that carry an inverse style
InverseNewlines ==
    { i \in 1..Len(tc_taken) : tc_taken[i].token = NL /\ is_inverse(tc_taken[i].style) }

\* C31: after render chars_count is the byte length of all the tokens
\* pushed, newline tokens included, highlighted_chars_count is the byte
\* length of the tokens rendered inverse, those restyled by the three rules
\* included, and the second never exceeds the first.
C31_CountsMatchRender ==
    rendered =>
        /\ bytes_count = BytesOf(tc_taken, FALSE)
        /\ highlighted_bytes_count = InverseBytesFrom(1) + Cardinality(InverseNewlines)
        /\ highlighted_bytes_count <= bytes_count

IsEscape(unit) == unit \in Escapes

IsntEscape(unit) == unit \notin Escapes

\* What this step appended to plain_text
AppendedPlain == SubSeq(plain_text', Len(plain_text) + 1, Len(plain_text'))

\* The units of text between its escapes number from and from + 1
RECURSIVE Between(_, _)
Between(text, from) ==
    IF text = << >> THEN << >>
    ELSE IF IsEscape(Head(text))
    THEN Between(Tail(text), from - 1)
    ELSE IF from = 0 THEN << Head(text) >> \o Between(Tail(text), from)
    ELSE Between(Tail(text), from)

\* C32: a line starting with "@@ " flushes the old/new block before it
\* appends anything, and then appends one line to the plain block: the
\* hunk-header color, the line up to and including its second "@@ " marker
\* in faint, the function name after it in bold, and the reset escape;
\* without the escapes the appended line is the input line, and a header
\* without a second marker is appended whole in the hunk-header color.
C32_HunkHeader ==
    [][ (nlines' = nlines + 1 /\ StartsWith(Last(input'), P_atat_sp)) =>
          LET line == Last(input')
              added == AppendedPlain
              marks == SelectSeq(added, IsEscape)
              head == Between(added, 2)
          IN  /\ OldnewFlushed
              /\ old_text' = << >> /\ new_text' = << >>
              /\ SubSeq(plain_text', 1, Len(plain_text)) = plain_text
              /\ SelectSeq(added, IsntEscape) = line \o NL
              /\ Head(added) = HUNK_HEADER
              /\ SubSeq(added, Len(added) - 1, Len(added)) = << NORMAL >> \o NL
              /\ IF Contains(line, P_sp_atat_sp)
                 THEN /\ marks = << HUNK_HEADER, FAINT, BOLD, NORMAL >>
                      /\ added[2] = FAINT
                      /\ StartsWith(line, head)
                      /\ Find(head, P_sp_atat_sp) = Len(head) - 3
                 ELSE marks = << HUNK_HEADER, NORMAL >>
      ]_vars

\* A hunk header that names a function arrived while a removed and an added
\* line were pending: the diff future is on its way, the header is in the
\* plain block
C32_Witness ==
    /\ nlines = 3 /\ Last(input) = HunkLine(3) /\ prod = "feeding"
    /\ Len(sending) = 1 /\ created[sending[1]].kind = "oldnew"
    /\ created[sending[1]].old # << >> /\ created[sending[1]].new # << >>
    /\ Contains(plain_text, << BOLD, "f", NORMAL >>)

\* This step handles a "+++ " line that follows a "--- " line with a name
PairCompletes ==
    /\ nlines' = nlines + 1 /\ nlines >= 1
    /\ StartsWith(Last(input), P_minus3_sp) /\ Last(input) # P_minus3_sp
    /\ StartsWith(Last(input'), P_plus3_sp)

DiffsHoldingOld(k) ==
    { i \in 1..Len(created) :
        created[i].kind = "oldnew" /\ Contains(created[i].old, << D[k] >>) }

DiffsHoldingNew(k) ==
    { i \in 1..Len(created) :
        created[i].kind = "oldnew" /\ Contains(created[i].new, << D[k] >>) }

\* C34: no accumulated content is lost: the text of every removed line is
\* either still in old_text or in the old text of exactly one diff future,
\* never in both and never in neither, and the same for the added lines and
\* new_text; so that once teardown has flushed the buffers every such line
\* is in exactly one dispatched diff.
C34_NoContentLost ==
    \A k \in 1..Len(input) :
        /\ input[k] = << "-", D[k] >> =>
              IF Contains(old_text, << D[k] >>)
              THEN DiffsHoldingOld(k) = {}
              ELSE Cardinality(DiffsHoldingOld(k)) = 1
        /\ input[k] = << "+", D[k] >> =>
              IF Contains(new_text, << D[k] >>)
              THEN DiffsHoldingNew(k) = {}
              ELSE Cardinality(DiffsHoldingNew(k)) = 1

\* The texts of the plain block: the finished futures made so far and what
\* plain_text holds
PlainTexts ==
    { created[i].text : i \in { j \in 1..Len(created) : created[j].kind = "string" } }
        \cup { plain_text }

\* C35: the name a "--- " line gave is never the old text of a diff future,
\* whatever line or end of stream follows it, and the text of a removed
\* line is never written as the old name of a header pair.
C35_NameOnlyInHeaderPair ==
    \A k \in 1..Len(input) :
        /\ input[k] = P_minus3_sp \o << D[k] >> => DiffsHoldingOld(k) = {}
        /\ input[k] = << "-", D[k] >> =>
              \A text \in PlainTexts : ~Contains(text, P_minus3_sp \o << D[k] >>)

\* C36: in the sequential loop last_line_kind is Old (resp. New) only while
\* old_text (resp. new_text) still ends with the newline of the most recent
\* removed (resp. added) line, so that a no-newline marker never makes a pop
\* fail.
C36_KindMatchesBuffer ==
    /\ (hd_pc = "loop" /\ last_line_kind = "Old") => EndsWithNewline(hd_old_text)
    /\ (hd_pc = "loop" /\ last_line_kind = "New") => EndsWithNewline(hd_new_text)
    /\ hd_abort = "none"

====
